---------------------------- MODULE Spec2Model ----------------------------
(***************************************************************************)
(* A model of kaze's simulator signal compiler (kaze/src/sim/compiler.rs): *)
(* register discovery (gather_regs), the memoizing lowering of a signal    *)
(* graph to an ordered list of assignments over native integer types       *)
(* (compile_signal and its gen_* helpers), and the evaluation of the       *)
(* emitted assignments; and of the Verilog generator (kaze/src/verilog.rs): *)
(* generate, the text it writes, and the behaviour of the always blocks it *)
(* writes at the edges of clk and reset_n.                                 *)
(*                                                                         *)
(* A native value is a pair <<type, bits>>, where bits is the set of the   *)
(* positions of the bits that are 1, so that 32, 64 and 128 bit values     *)
(* keep their real width.                                                  *)
(***************************************************************************)
EXTENDS Integers, Sequences, FiniteSets, TLC

VARIABLES
    graph,             \* the signal graph handed to the compiler (read only)
    regs,              \* Compiler::regs: (context, signal) -> CompiledRegister
    signal_exprs,      \* Compiler::signal_exprs: (context, signal) -> Expr
    prop_assignments,  \* Compiler::prop_assignments
    local_count,       \* Compiler::local_count
    call,              \* the last call made on the compiler and what it returned
    first_ret,         \* history: (context, signal) -> Expr its first compile returned
    members,           \* the values of the input ports and register storage
    locals,            \* the values of the temporaries after the assignments ran
    ncalls,            \* number of compile_signal calls made so far
    ngathers,          \* number of gather_regs calls made so far
    vmodule,           \* the module handed to verilog::generate (read only)
    vresult,           \* what generate returned: "none" before the call, "Ok", "panic"
    vout,              \* the lines written to the output sink
    design,            \* what generate declared, compiled and wrote, block by block
    sim,               \* the state of the written module under simulation
    gather             \* a gather_regs call in progress, step by step

sim_vars == <<graph, regs, signal_exprs, prop_assignments, local_count, call,
              first_ret, members, locals, ncalls, ngathers, gather>>
verilog_vars == <<vmodule, vresult, vout, design, sim>>
vars == <<graph, regs, signal_exprs, prop_assignments, local_count, call,
          first_ret, members, locals, ncalls, ngathers,
          vmodule, vresult, vout, design, sim, gather>>

\* no gather_regs call is in progress: stack holds the calls still to be
\* made, innermost first, start the regs table as the outermost call found
\* it, next_traversals the number of times the next signal of a key was
\* entered
GatherIdle == [stack |-> <<>>, start |-> <<>>, next_traversals |-> <<>>]

\* generate is not called
VerilogIdle ==
    /\ vmodule = <<>>
    /\ vresult = "none"
    /\ vout = <<>>
    /\ design = <<>>
    /\ sim = <<>>

-----------------------------------------------------------------------------
(* Bit vectors as sets of bit positions *)

Range(n) == 0 .. (n - 1)

Trunc(v, n) == {i \in v : i < n}

BitsOfNat(k) == {i \in 0 .. 7 : (k \div (2 ^ i)) % 2 = 1}

RECURSIVE NatOfBits(_)
NatOfBits(v) ==
    IF v = {} THEN 0
    ELSE LET i == CHOOSE x \in v : TRUE
         IN (2 ^ i) + NatOfBits(v \ {i})

XorBits(a, b) == (a \ b) \cup (b \ a)

ShlBits(v, k, n) == {i + k : i \in {j \in v : j + k < n}}

ShrBits(v, k) == {i - k : i \in {j \in v : j >= k}}

SarBits(v, k, n) ==
    ShrBits(v, k) \cup (IF (n - 1) \in v THEN {i \in Range(n) : i >= n - k} ELSE {})

\* a < b as unsigned numbers: the highest differing bit is set in b
LessBits(a, b) == \E i \in b \ a : \A j \in a \ b : j < i

\* a < b as two's-complement numbers of n bits
LessSignedBits(a, b, n) ==
    IF ((n - 1) \in a) # ((n - 1) \in b) THEN (n - 1) \in a
    ELSE LessBits(a, b)

\* the sum bits of a + b + carry_in over the positions lo .. hi - 1, and the
\* carry out of position hi - 1
RECURSIVE AddRange(_, _, _, _, _)
AddRange(a, b, lo, hi, carry_in) ==
    IF hi - lo = 1
    THEN LET x == lo \in a
             y == lo \in b
         IN [s |-> IF (x # y) # carry_in THEN {lo} ELSE {},
             c |-> (x /\ y) \/ (x /\ carry_in) \/ (y /\ carry_in)]
    ELSE LET mid == (lo + hi) \div 2
             l == AddRange(a, b, lo, mid, carry_in)
             h == AddRange(a, b, mid, hi, l.c)
         IN [s |-> l.s \cup h.s, c |-> h.c]

\* (a + b) mod 2^n
AddBits(a, b, n) == AddRange(Trunc(a, n), Trunc(b, n), 0, n, FALSE).s

\* (a - b) mod 2^n = a + ~b + 1
SubBits(a, b, n) == AddRange(Trunc(a, n), Range(n) \ b, 0, n, TRUE).s

-----------------------------------------------------------------------------
(* ValueType *)

UnsignedTypes == {"U32", "U64", "U128"}
SignedTypes == {"I32", "I64", "I128"}

from_bit_width(w) ==
    IF w = 1 THEN "Bool"
    ELSE IF w <= 32 THEN "U32"
    ELSE IF w <= 64 THEN "U64"
    ELSE "U128"

TypeBits(t) ==
    CASE t = "Bool" -> 1
      [] t \in {"U32", "I32"} -> 32
      [] t \in {"U64", "I64"} -> 64
      [] t \in {"U128", "I128"} -> 128

to_signed(t) ==
    CASE t = "U32" -> "I32"
      [] t = "U64" -> "I64"
      [] t = "U128" -> "I128"
      [] OTHER -> "Unreachable"

-----------------------------------------------------------------------------
(* Expression IR *)

Constant(t, v) == <<"Constant", t, v>>
Ref(scope, name) == <<"Ref", scope, name>>
UnOpExpr(op, source) == <<"UnOp", op, source>>
InfixBinOp(op, lhs, rhs) == <<"InfixBinOp", op, lhs, rhs>>
UnaryMemberCall(target, name, arg) == <<"UnaryMemberCall", name, target, arg>>
BinaryFunctionCall(name, lhs, rhs) == <<"BinaryFunctionCall", name, lhs, rhs>>
Cast(source, target_type) == <<"Cast", target_type, source>>
Ternary(cond, when_true, when_false) == <<"Ternary", cond, when_true, when_false>>

Assignment(scope, name, expr) ==
    [target_scope |-> scope, target_name |-> name, expr |-> expr]

Insert(f, k, v) == [x \in (DOMAIN f) \cup {k} |-> IF x = k THEN v ELSE f[x]]

\* what a helper hands back: the compiler after it ran, and the Expr it returns
Ret(st, e) == [st |-> st, e |-> e]

Panic(st) == Ret([st EXCEPT !.ok = FALSE], Ref("Local", "panic"))

-----------------------------------------------------------------------------
(* The signal graph: graph.sigs maps a signal to its node, graph.insts an *)
(* instance to the module it instantiates and the drivers of its inputs,  *)
(* graph.outputs a module to its outputs.                                  *)

Sig0 ==
    [kind |-> "Lit", module |-> "top", bit_width |-> 1, name |-> "", op |-> "",
     value |-> {}, source |-> 0, lhs |-> 0, rhs |-> 0, cond |-> 0,
     when_true |-> 0, when_false |-> 0, range_high |-> 0, range_low |-> 0,
     count |-> 0, instance |-> 0, next |-> 0]

\* ModuleContext: the path of instances from the root; the root is <<>>
RootContext == <<>>
IsRoot(context) == context = <<>>
get_child(context, instance) == Append(context, instance)
ContextInstance(context) == context[Len(context)]
\* the crossing of an instance boundary upwards always ends at the root
ContextParent_Root(context) == <<>>

ContextParent(context) == SubSeq(context, 1, Len(context) - 1)

-----------------------------------------------------------------------------
(* Compiler::gather_regs *)

\* a storage name without the count of the registers found so far
RegValueName_NoCount(name, n) == "__reg_" \o name

RegValueName(name, n) == "__reg_" \o name \o "_" \o ToString(n)
\* a next name without its suffix
RegNextName_NoSuffix(value_name) == value_name

RegNextName(value_name) == value_name \o "_next"

\* names formatted from the size of the table after the insertion
CompiledRegister_CountAfter(sig, n) ==
    [data |-> sig.name,
     value_name |-> RegValueName(sig.name, n + 1),
     next_name |-> RegNextName(RegValueName(sig.name, n + 1))]

CompiledRegister(sig, n) ==
    [data |-> sig.name,
     value_name |-> RegValueName(sig.name, n),
     next_name |-> RegNextName(RegValueName(sig.name, n))]

RECURSIVE gather_regs(_, _, _, _)
gather_regs(g, rs, signal, context) ==
    LET sig == g.sigs[signal] IN
    CASE sig.kind = "Lit" -> rs
      [] sig.kind = "Input" ->
            IF ~IsRoot(context)
            THEN gather_regs(g, rs,
                             g.insts[ContextInstance(context)].driven_inputs[sig.name],
                             ContextParent(context))
            ELSE rs
      [] sig.kind = "Reg" ->
            LET key == <<context, signal>> IN
            IF key \in DOMAIN rs THEN rs
            ELSE gather_regs(g,
                             Insert(rs, key, CompiledRegister(sig, Cardinality(DOMAIN rs))),
                             sig.next, context)
      [] sig.kind \in {"UnOp", "Bits", "Repeat"} ->
            gather_regs(g, rs, sig.source, context)
      [] sig.kind \in {"SimpleBinOp", "AdditiveBinOp", "ComparisonBinOp",
                       "ShiftBinOp", "Concat"} ->
            gather_regs(g, gather_regs(g, rs, sig.lhs, context), sig.rhs, context)
      [] sig.kind = "Mux" ->
            gather_regs(g,
                        gather_regs(g, gather_regs(g, rs, sig.cond, context),
                                    sig.when_true, context),
                        sig.when_false, context)
      [] sig.kind = "InstanceOutput" ->
            gather_regs(g, rs,
                        g.outputs[g.insts[sig.instance].instantiated_module][sig.name],
                        get_child(context, sig.instance))

-----------------------------------------------------------------------------
(* The code generators of the compiler. st is the compiler: regs,          *)
(* signal_exprs, prop_assignments, local_count; st.ok is FALSE once the    *)
(* compiler has panicked.                                                  *)

\* a temporary made without advancing local_count
gen_temp_SameCount(st, expr) ==
    LET target_name == "__temp_" \o ToString(st.local_count)
    IN Ret([st EXCEPT !.prop_assignments =
                          Append(@, Assignment("Local", target_name, expr))],
           Ref("Local", target_name))

\* a reference formatted after local_count was advanced
gen_temp_NextName(st, expr) ==
    LET target_name == "__temp_" \o ToString(st.local_count)
    IN Ret([st EXCEPT !.local_count = @ + 1,
                      !.prop_assignments =
                          Append(@, Assignment("Local", target_name, expr))],
           Ref("Local", "__temp_" \o ToString(st.local_count + 1)))

gen_temp(st, expr) ==
    LET target_name == "__temp_" \o ToString(st.local_count)
    IN Ret([st EXCEPT !.local_count = @ + 1,
                      !.prop_assignments =
                          Append(@, Assignment("Local", target_name, expr))],
           Ref("Local", target_name))

\* no mask emitted
gen_mask_None(st, expr, bit_width, target_type) == Ret(st, expr)

MaskBits(bit_width, target_type) == Trunc(Range(bit_width), TypeBits(target_type))

gen_mask(st, expr, bit_width, target_type) ==
    IF bit_width = TypeBits(target_type) THEN Ret(st, expr)
    ELSE IF target_type \notin UnsignedTypes THEN Panic(st)
    ELSE gen_temp(st, InfixBinOp("BitAnd", expr,
                                 Constant(target_type, MaskBits(bit_width, target_type))))

\* no shift emitted
gen_shift_left_None(st, expr, shift) == Ret(st, expr)

gen_shift_left(st, expr, shift) ==
    IF shift = 0 THEN Ret(st, expr)
    ELSE gen_temp(st, InfixBinOp("Shl", expr, Constant("U32", BitsOfNat(shift))))

\* no shift emitted
gen_shift_right_None(st, expr, shift) == Ret(st, expr)

gen_shift_right(st, expr, shift) ==
    IF shift = 0 THEN Ret(st, expr)
    ELSE gen_temp(st, InfixBinOp("Shr", expr, Constant("U32", BitsOfNat(shift))))

\* the cast returned as it is, bound to no temporary
gen_cast_Inline(st, expr, source_type, target_type) ==
    IF source_type = target_type THEN Ret(st, expr)
    ELSE Ret(st, Cast(expr, target_type))

gen_cast(st, expr, source_type, target_type) ==
    IF source_type = target_type THEN Ret(st, expr)
    ELSE IF target_type = "Bool"
    THEN LET m == gen_mask(st, expr, 1, source_type) IN
         IF source_type \notin UnsignedTypes THEN Panic(st)
         ELSE gen_temp(m.st, InfixBinOp("NotEqual", m.e, Constant(source_type, {})))
    ELSE gen_temp(st, Cast(expr, target_type))

\* no sign extension: the operand is compared as cast
gen_sign_extend_shifts_None(st, expr, source_bit_width, target_type) == Ret(st, expr)

gen_sign_extend_shifts(st, expr, source_bit_width, target_type) ==
    LET shift == TypeBits(target_type) - source_bit_width
        l == gen_shift_left(st, expr, shift)
    IN gen_shift_right(l.st, l.e, shift)

-----------------------------------------------------------------------------
(* Compiler::compile_signal, one operator per arm of the match *)

RECURSIVE compile_signal(_, _, _, _)

compile_Lit(st, sig) ==
    LET target_type == from_bit_width(sig.bit_width) IN
    Ret(st, Constant(target_type,
                     IF target_type = "Bool"
                     THEN (IF sig.value # {} THEN {0} ELSE {})
                     ELSE Trunc(sig.value, TypeBits(target_type))))

\* the context in which the driver of an instance input is compiled
InputDriverContext(context) == ContextParent(context)

\* the root port referenced as it is, whatever its width
compile_Input_Unmasked(g, st, sig, context) ==
    IF ~IsRoot(context)
    THEN IF sig.name \notin DOMAIN g.insts[ContextInstance(context)].driven_inputs
         THEN Panic(st)
         ELSE compile_signal(g, st,
                             g.insts[ContextInstance(context)].driven_inputs[sig.name],
                             InputDriverContext(context))
    ELSE Ret(st, Ref("Member", sig.name))

compile_Input(g, st, sig, context) ==
    IF ~IsRoot(context)
    THEN IF sig.name \notin DOMAIN g.insts[ContextInstance(context)].driven_inputs
         THEN Panic(st)
         ELSE compile_signal(g, st,
                             g.insts[ContextInstance(context)].driven_inputs[sig.name],
                             InputDriverContext(context))
    ELSE gen_mask(st, Ref("Member", sig.name), sig.bit_width,
                  from_bit_width(sig.bit_width))

\* a key formed with the root context whatever the context of the call
RegKey_Root(context, signal) == <<RootContext, signal>>

RegKey(context, signal) == <<context, signal>>

\* a register that discovery did not find is given storage by the lookup
compile_Reg_Insert(st, signal, context) ==
    LET key == RegKey(context, signal)
        found == IF key \in DOMAIN st.regs THEN st.regs
                 ELSE Insert(st.regs, key,
                             CompiledRegister([name |-> ToString(signal)],
                                              Cardinality(DOMAIN st.regs)))
    IN Ret([st EXCEPT !.regs = found], Ref("Member", found[key].value_name))

compile_Reg(st, signal, context) ==
    IF RegKey(context, signal) \notin DOMAIN st.regs THEN Panic(st)
    ELSE Ret(st, Ref("Member", st.regs[RegKey(context, signal)].value_name))

compile_UnOp(g, st, sig, context) ==
    LET src == compile_signal(g, st, sig.source, context)
        t == gen_temp(src.st, UnOpExpr("Not", src.e))
        bit_width == g.sigs[sig.source].bit_width
    IN gen_mask(t.st, t.e, bit_width, from_bit_width(bit_width))

compile_SimpleBinOp(g, st, sig, context) ==
    LET lhs == compile_signal(g, st, sig.lhs, context)
        rhs == compile_signal(g, lhs.st, sig.rhs, context)
    IN gen_temp(rhs.st, InfixBinOp(sig.op, lhs.e, rhs.e))

AdditiveCallName(op) ==
    CASE op = "Add" -> "wrapping_add"
      [] op = "Sub" -> "wrapping_sub"

compile_AdditiveBinOp(g, st, sig, context) ==
    LET source_bit_width == g.sigs[sig.lhs].bit_width
        source_type == from_bit_width(source_bit_width)
        lhs == compile_signal(g, st, sig.lhs, context)
        rhs == compile_signal(g, lhs.st, sig.rhs, context)
        op_input_type == IF source_type = "Bool" THEN "U32" ELSE source_type
        lhs2 == gen_cast(rhs.st, lhs.e, source_type, op_input_type)
        rhs2 == gen_cast(lhs2.st, rhs.e, source_type, op_input_type)
        expr == gen_temp(rhs2.st,
                         UnaryMemberCall(lhs2.e, AdditiveCallName(sig.op), rhs2.e))
        target_bit_width == sig.bit_width
        target_type == from_bit_width(target_bit_width)
        expr2 == gen_cast(expr.st, expr.e, op_input_type, target_type)
    IN gen_mask(expr2.st, expr2.e, target_bit_width, target_type)

IsSignedComparison(op) ==
    op \in {"GreaterThanEqualSigned", "GreaterThanSigned",
            "LessThanEqualSigned", "LessThanSigned"}

ComparisonInfixOp(op) ==
    CASE op = "Equal" -> "Equal"
      [] op = "NotEqual" -> "NotEqual"
      [] op \in {"LessThan", "LessThanSigned"} -> "LessThan"
      [] op \in {"LessThanEqual", "LessThanEqualSigned"} -> "LessThanEqual"
      [] op \in {"GreaterThan", "GreaterThanSigned"} -> "GreaterThan"
      [] op \in {"GreaterThanEqual", "GreaterThanEqualSigned"} -> "GreaterThanEqual"

compile_ComparisonBinOp(g, st, sig, context) ==
    LET source_bit_width == g.sigs[sig.lhs].bit_width
        source_type == from_bit_width(source_bit_width)
        lhs == compile_signal(g, st, sig.lhs, context)
        rhs == compile_signal(g, lhs.st, sig.rhs, context)
    IN IF IsSignedComparison(sig.op)
       THEN LET lc == gen_cast(rhs.st, lhs.e, source_type, to_signed(source_type))
                rc == gen_cast(lc.st, rhs.e, source_type, to_signed(source_type))
                ls == gen_sign_extend_shifts(rc.st, lc.e, source_bit_width,
                                             to_signed(source_type))
                rs == gen_sign_extend_shifts(ls.st, rc.e, source_bit_width,
                                             to_signed(source_type))
            IN IF to_signed(source_type) = "Unreachable" THEN Panic(rhs.st)
               ELSE gen_temp(rs.st, InfixBinOp(ComparisonInfixOp(sig.op), ls.e, rs.e))
       ELSE gen_temp(rhs.st, InfixBinOp(ComparisonInfixOp(sig.op), lhs.e, rhs.e))

\* the call a shift operator is lowered to
ShrArithmeticCallName == "checked_shr"

ShiftCallName(op) ==
    CASE op = "Shl" -> "checked_shl"
      [] op = "Shr" -> "checked_shr"
      [] op = "ShrArithmetic" -> ShrArithmeticCallName

\* the type the clamped shift count is taken to have when it is cast to U32
ShiftCountCastSource(lhs_op_input_type, rhs_op_input_type) == lhs_op_input_type

compile_ShiftBinOp(g, st, sig, context) ==
    LET lhs_source_type == from_bit_width(g.sigs[sig.lhs].bit_width)
        rhs_source_type == from_bit_width(g.sigs[sig.rhs].bit_width)
        lhs == compile_signal(g, st, sig.lhs, context)
        rhs == compile_signal(g, lhs.st, sig.rhs, context)
        lhs_op_input_type == IF lhs_source_type = "Bool" THEN "U32" ELSE lhs_source_type
        lhs2 == gen_cast(rhs.st, lhs.e, lhs_source_type, lhs_op_input_type)
        rhs_op_input_type == IF rhs_source_type = "Bool" THEN "U32" ELSE rhs_source_type
        rhs2 == gen_cast(lhs2.st, rhs.e, rhs_source_type, rhs_op_input_type)
        clamped == BinaryFunctionCall("std::cmp::min", rhs2.e,
                                      Constant(rhs_op_input_type, Range(32)))
        rhs3 == gen_cast(rhs2.st, clamped,
                         ShiftCountCastSource(lhs_op_input_type, rhs_op_input_type),
                         "U32")
        shifted == UnaryMemberCall(lhs2.e, ShiftCallName(sig.op), rhs3.e)
        expr == gen_temp(rhs3.st,
                         UnaryMemberCall(shifted, "unwrap_or",
                                         Constant(lhs_op_input_type, {})))
        target_bit_width == sig.bit_width
        target_type == from_bit_width(target_bit_width)
        expr2 == gen_cast(expr.st, expr.e, lhs_op_input_type, target_type)
    IN gen_mask(expr2.st, expr2.e, target_bit_width, target_type)

compile_Bits(g, st, sig, context) ==
    LET src == compile_signal(g, st, sig.source, context)
        sh == gen_shift_right(src.st, src.e, sig.range_low)
        target_bit_width == sig.bit_width
        target_type == from_bit_width(target_bit_width)
        c == gen_cast(sh.st, sh.e, from_bit_width(g.sigs[sig.source].bit_width),
                      target_type)
    IN gen_mask(c.st, c.e, target_bit_width, target_type)

\* for i in lo..=hi { expr = expr | (source_expr << (i * source.bit_width())) }
\* The range is run as its two halves in order; the test on the first half's
\* result (always true) has it evaluated before the second half starts.
RECURSIVE RepeatLoop(_, _, _, _, _, _)
RepeatLoop(st, expr, source_expr, lo, hi, source_bit_width) ==
    IF lo > hi THEN Ret(st, expr)
    ELSE IF lo = hi
    THEN LET rhs == gen_shift_left(st, source_expr, lo * source_bit_width)
         IN gen_temp(rhs.st, InfixBinOp("BitOr", expr, rhs.e))
    ELSE LET mid == (lo + hi) \div 2
             first == RepeatLoop(st, expr, source_expr, lo, mid, source_bit_width)
         IN IF first.st.local_count >= 0
            THEN RepeatLoop(first.st, first.e, source_expr, mid + 1, hi,
                            source_bit_width)
            ELSE first

\* the cast source alone, no copy ORed in
compile_Repeat_CastOnly(g, st, sig, context) ==
    LET src == compile_signal(g, st, sig.source, context)
    IN gen_cast(src.st, src.e, from_bit_width(g.sigs[sig.source].bit_width),
                from_bit_width(sig.bit_width))

compile_Repeat(g, st, sig, context) ==
    LET src == compile_signal(g, st, sig.source, context)
        c == gen_cast(src.st, src.e, from_bit_width(g.sigs[sig.source].bit_width),
                      from_bit_width(sig.bit_width))
    IN IF sig.count > 1
       THEN RepeatLoop(c.st, c.e, c.e, 1, sig.count - 1,
                       g.sigs[sig.source].bit_width)
       ELSE c

compile_Concat(g, st, sig, context) ==
    LET lhs_type == from_bit_width(g.sigs[sig.lhs].bit_width)
        rhs_bit_width == g.sigs[sig.rhs].bit_width
        rhs_type == from_bit_width(rhs_bit_width)
        lhs == compile_signal(g, st, sig.lhs, context)
        rhs == compile_signal(g, lhs.st, sig.rhs, context)
        target_type == from_bit_width(sig.bit_width)
        lhs2 == gen_cast(rhs.st, lhs.e, lhs_type, target_type)
        rhs2 == gen_cast(lhs2.st, rhs.e, rhs_type, target_type)
        lhs3 == gen_shift_left(rhs2.st, lhs2.e, rhs_bit_width)
    IN gen_temp(lhs3.st, InfixBinOp("BitOr", lhs3.e, rhs2.e))

compile_Mux(g, st, sig, context) ==
    LET cond == compile_signal(g, st, sig.cond, context)
        when_true == compile_signal(g, cond.st, sig.when_true, context)
        when_false == compile_signal(g, when_true.st, sig.when_false, context)
    IN gen_temp(when_false.st, Ternary(cond.e, when_true.e, when_false.e))

\* the context in which the body of an instantiated module is compiled
\* the instance's output compiled without entering the instance
InstanceOutputContext_Same(context, instance) == context

InstanceOutputContext(context, instance) == get_child(context, instance)

compile_InstanceOutput(g, st, sig, context) ==
    compile_signal(g, st,
                   g.outputs[g.insts[sig.instance].instantiated_module][sig.name],
                   InstanceOutputContext(context, sig.instance))

\* a lookup that finds only the pairs of instance contexts
MemoHit_InstancesOnly(st, key) == key \in DOMAIN st.signal_exprs /\ ~IsRoot(key[1])

MemoHit(st, key) == key \in DOMAIN st.signal_exprs

MemoInsert(st, key, expr) ==
    [st EXCEPT !.signal_exprs = Insert(@, key, expr),
               !.first_ret = IF key \in DOMAIN @ THEN @ ELSE Insert(@, key, expr)]

compile_signal(g, st, signal, context) ==
    LET key == <<context, signal>>
        sig == g.sigs[signal]
    IN IF MemoHit(st, key) THEN Ret(st, st.signal_exprs[key])
       ELSE LET r == CASE sig.kind = "Lit" -> compile_Lit(st, sig)
                       [] sig.kind = "Input" -> compile_Input(g, st, sig, context)
                       [] sig.kind = "Reg" -> compile_Reg(st, signal, context)
                       [] sig.kind = "UnOp" -> compile_UnOp(g, st, sig, context)
                       [] sig.kind = "SimpleBinOp" ->
                             compile_SimpleBinOp(g, st, sig, context)
                       [] sig.kind = "AdditiveBinOp" ->
                             compile_AdditiveBinOp(g, st, sig, context)
                       [] sig.kind = "ComparisonBinOp" ->
                             compile_ComparisonBinOp(g, st, sig, context)
                       [] sig.kind = "ShiftBinOp" ->
                             compile_ShiftBinOp(g, st, sig, context)
                       [] sig.kind = "Bits" -> compile_Bits(g, st, sig, context)
                       [] sig.kind = "Repeat" -> compile_Repeat(g, st, sig, context)
                       [] sig.kind = "Concat" -> compile_Concat(g, st, sig, context)
                       [] sig.kind = "Mux" -> compile_Mux(g, st, sig, context)
                       [] sig.kind = "InstanceOutput" ->
                             compile_InstanceOutput(g, st, sig, context)
                st2 == MemoInsert(r.st, key, r.e)
            IN Ret(st2, st2.signal_exprs[key])

-----------------------------------------------------------------------------
(* The value of an emitted expression, as the Rust the simulator emitter   *)
(* renders it to computes it. A value is <<type, bits>>; an Option is      *)
(* <<"Option", type, is_some, bits>>; <<"Error", {}>> is an expression     *)
(* that does not type-check or whose evaluation overflows a shift.         *)

IntTypes == UnsignedTypes \cup SignedTypes
Error == <<"Error", {}>>
BoolValue(b) == <<"Bool", IF b THEN {0} ELSE {}>>

\* whether the number with these bits is >= n, for n < 256
AtLeast(bits, n) == (\E i \in bits : i >= 8) \/ NatOfBits(bits) >= n

LessValue(a, b) ==
    IF a[1] \in SignedTypes THEN LessSignedBits(a[2], b[2], TypeBits(a[1]))
    ELSE LessBits(a[2], b[2])

EvalInfix(op, a, b) ==
    IF a[1] \notin IntTypes \cup {"Bool"} \/ b[1] \notin IntTypes \cup {"Bool"} THEN Error
    ELSE IF op \in {"Shl", "Shr"}
    THEN IF a[1] \notin IntTypes \/ b[1] \notin IntTypes \/ AtLeast(b[2], TypeBits(a[1]))
         THEN Error
         ELSE IF op = "Shl" THEN <<a[1], ShlBits(a[2], NatOfBits(b[2]), TypeBits(a[1]))>>
         ELSE IF a[1] \in SignedTypes
         THEN <<a[1], SarBits(a[2], NatOfBits(b[2]), TypeBits(a[1]))>>
         ELSE <<a[1], ShrBits(a[2], NatOfBits(b[2]))>>
    ELSE IF a[1] # b[1] THEN Error
    ELSE CASE op = "BitAnd" -> <<a[1], a[2] \cap b[2]>>
           [] op = "BitOr" -> <<a[1], a[2] \cup b[2]>>
           [] op = "BitXor" -> <<a[1], XorBits(a[2], b[2])>>
           [] op = "Equal" -> BoolValue(a[2] = b[2])
           [] op = "NotEqual" -> BoolValue(a[2] # b[2])
           [] op = "LessThan" -> BoolValue(LessValue(a, b))
           [] op = "LessThanEqual" -> BoolValue(~LessValue(b, a))
           [] op = "GreaterThan" -> BoolValue(LessValue(b, a))
           [] op = "GreaterThanEqual" -> BoolValue(~LessValue(a, b))

EvalNot(a) ==
    IF a[1] \in IntTypes \cup {"Bool"} THEN <<a[1], Range(TypeBits(a[1])) \ a[2]>>
    ELSE Error

EvalMemberCall(name, target, arg) ==
    CASE name \in {"wrapping_add", "wrapping_sub"} ->
            IF target[1] \notin IntTypes \/ arg[1] # target[1] THEN Error
            ELSE IF name = "wrapping_add"
            THEN <<target[1], AddBits(target[2], arg[2], TypeBits(target[1]))>>
            ELSE <<target[1], SubBits(target[2], arg[2], TypeBits(target[1]))>>
      [] name \in {"checked_shl", "checked_shr"} ->
            IF target[1] \notin IntTypes \/ arg[1] # "U32" THEN Error
            ELSE IF AtLeast(arg[2], TypeBits(target[1]))
            THEN <<"Option", target[1], FALSE, {}>>
            ELSE <<"Option", target[1], TRUE,
                   (EvalInfix(IF name = "checked_shl" THEN "Shl" ELSE "Shr",
                              target, arg))[2]>>
      [] name = "unwrap_or" ->
            IF target[1] # "Option" \/ arg[1] # target[2] THEN Error
            ELSE IF target[3] THEN <<target[2], target[4]>>
            ELSE arg

EvalMin(a, b) ==
    IF a[1] \notin IntTypes \/ a[1] # b[1] THEN Error
    ELSE IF LessValue(b, a) THEN b ELSE a

EvalCast(target_type, a) ==
    IF a[1] \notin IntTypes \cup {"Bool"} \/ target_type \notin IntTypes THEN Error
    ELSE IF a[1] \in SignedTypes /\ (TypeBits(a[1]) - 1) \in a[2]
    THEN <<target_type,
           Trunc(a[2] \cup {i \in Range(128) : i >= TypeBits(a[1])}, TypeBits(target_type))>>
    ELSE <<target_type, Trunc(a[2], TypeBits(target_type))>>

EvalTernary(c, t, f) ==
    IF c[1] # "Bool" \/ t[1] # f[1] \/ t[1] \notin IntTypes \cup {"Bool"} THEN Error
    ELSE IF c[2] # {} THEN t ELSE f

RECURSIVE EvalExpr(_, _, _)
EvalExpr(e, loc, mem) ==
    CASE e[1] = "Constant" -> <<e[2], e[3]>>
      [] e[1] = "Ref" ->
            IF e[2] = "Local"
            THEN (IF e[3] \in DOMAIN loc THEN loc[e[3]] ELSE Error)
            ELSE (IF e[3] \in DOMAIN mem THEN mem[e[3]] ELSE Error)
      [] e[1] = "UnOp" -> EvalNot(EvalExpr(e[3], loc, mem))
      [] e[1] = "InfixBinOp" ->
            EvalInfix(e[2], EvalExpr(e[3], loc, mem), EvalExpr(e[4], loc, mem))
      [] e[1] = "UnaryMemberCall" ->
            EvalMemberCall(e[2], EvalExpr(e[3], loc, mem), EvalExpr(e[4], loc, mem))
      [] e[1] = "BinaryFunctionCall" ->
            EvalMin(EvalExpr(e[3], loc, mem), EvalExpr(e[4], loc, mem))
      [] e[1] = "Cast" -> EvalCast(e[2], EvalExpr(e[3], loc, mem))
      [] e[1] = "Ternary" ->
            EvalTernary(EvalExpr(e[2], loc, mem), EvalExpr(e[3], loc, mem),
                        EvalExpr(e[4], loc, mem))

\* the assignments lo .. hi run in list order, each binding its target; the
\* range is run as its two halves in order, the first half's result (never
\* empty) evaluated before the second half starts
RECURSIVE RunAssignments(_, _, _, _, _)
RunAssignments(assignments, lo, hi, loc, mem) ==
    IF lo > hi THEN loc
    ELSE IF lo = hi
    THEN Insert(loc, assignments[lo].target_name,
                EvalExpr(assignments[lo].expr, loc, mem))
    ELSE LET mid == (lo + hi) \div 2
             first == RunAssignments(assignments, lo, mid, loc, mem)
         IN IF DOMAIN first # {}
            THEN RunAssignments(assignments, mid + 1, hi, first, mem)
            ELSE first

-----------------------------------------------------------------------------
(* Building signal graphs. A signal's bit_width is fixed when it is built, *)
(* as Signal::bit_width() reports it.                                      *)

Input(m, name, w) ==
    [Sig0 EXCEPT !.kind = "Input", !.module = m, !.name = name, !.bit_width = w]
Lit(m, value, w) ==
    [Sig0 EXCEPT !.kind = "Lit", !.module = m, !.value = value, !.bit_width = w]
Reg(m, name, w, next) ==
    [Sig0 EXCEPT !.kind = "Reg", !.module = m, !.name = name, !.bit_width = w,
                 !.next = next]
UnOp(m, source, w) ==
    [Sig0 EXCEPT !.kind = "UnOp", !.module = m, !.op = "Not", !.source = source,
                 !.bit_width = w]
BinOp(m, kind, op, lhs, rhs, w) ==
    [Sig0 EXCEPT !.kind = kind, !.module = m, !.op = op, !.lhs = lhs, !.rhs = rhs,
                 !.bit_width = w]
Bits(m, source, high, low) ==
    [Sig0 EXCEPT !.kind = "Bits", !.module = m, !.source = source,
                 !.range_high = high, !.range_low = low,
                 !.bit_width = high - low + 1]
Repeat(m, source, source_width, count) ==
    [Sig0 EXCEPT !.kind = "Repeat", !.module = m, !.source = source,
                 !.count = count, !.bit_width = source_width * count]
Concat(m, lhs, lhs_width, rhs, rhs_width) ==
    [Sig0 EXCEPT !.kind = "Concat", !.module = m, !.lhs = lhs, !.rhs = rhs,
                 !.bit_width = lhs_width + rhs_width]
Mux(m, cond, when_true, when_false, w) ==
    [Sig0 EXCEPT !.kind = "Mux", !.module = m, !.cond = cond,
                 !.when_true = when_true, !.when_false = when_false,
                 !.bit_width = w]
InstanceOutput(m, instance, name, w) ==
    [Sig0 EXCEPT !.kind = "InstanceOutput", !.module = m, !.instance = instance,
                 !.name = name, !.bit_width = w]

Instance(parent, module, driven_inputs) ==
    [parent |-> parent, instantiated_module |-> module,
     driven_inputs |-> driven_inputs]

\* values a w-bit signal is driven with: zero, all ones, the top bit alone,
\* every other bit
CleanSamples(w) ==
    {{}, Range(w), {w - 1}, {i \in Range(w) : i % 2 = 0}}

\* values of a port of the native type of a w-bit input: the above, and
\* values with bits at and above w
PortSamples(w) ==
    CleanSamples(w) \cup
    (IF w < TypeBits(from_bit_width(w))
     THEN {Range(TypeBits(from_bit_width(w))), {0, w}} ELSE {})

\* shift amounts of width wb for a left operand of width wa: 0, 1, wa - 1, wa,
\* the native width of the left operand, 2^32, the largest amount
ShiftSamples(wa, wb) ==
    {v \in {{}, {0}, BitsOfNat(wa - 1), BitsOfNat(wa),
            BitsOfNat(TypeBits(from_bit_width(wa))), {32}, Range(wb)} :
        \A i \in v : i < wb}

Port(w, samples) == [bit_width |-> w, samples |-> samples]

-----------------------------------------------------------------------------
(* The graphs the compiler is run on: the test modules of                  *)
(* kaze-sim-tests/build.rs, over more widths.                              *)

Graph(name, sigs, insts, outputs, ports) ==
    [name |-> name, sigs |-> sigs, insts |-> insts, outputs |-> outputs,
     ports |-> ports]

\* o = i
InputMasking(w) ==
    Graph(<<"Input", w>>, <<Input("top", "i", w)>>, <<>>, [top |-> [o |-> 1]],
          [i |-> Port(w, PortSamples(w))])

InputGraphs == {InputMasking(w) : w \in {1, 2, 27, 32, 33, 64, 100, 128}}

\* o = a <op> b
BinOpGraph(kind, op, wa, wb, wo, sa, sb) ==
    Graph(<<kind, op, wa, wb>>,
          <<Input("top", "a", wa), Input("top", "b", wb),
            BinOp("top", kind, op, 1, 2, wo)>>,
          <<>>,
          [top |-> [o |-> 3]],
          [a |-> Port(wa, sa), b |-> Port(wb, sb)])

AdditiveWidths == {1, 7, 16, 32, 64, 127, 128}

AdditiveGraphs ==
    {BinOpGraph("AdditiveBinOp", x[1], x[2], x[2], x[2],
                PortSamples(x[2]), PortSamples(x[2])) :
        x \in {"Add", "Sub"} \X AdditiveWidths}

UnsignedComparisons ==
    {"Equal", "NotEqual", "LessThan", "LessThanEqual", "GreaterThan",
     "GreaterThanEqual"}
SignedComparisons ==
    {"LessThanSigned", "LessThanEqualSigned", "GreaterThanSigned",
     "GreaterThanEqualSigned"}

ComparisonGraphs ==
    {BinOpGraph("ComparisonBinOp", x[1], x[2], x[2], 1,
                PortSamples(x[2]), PortSamples(x[2])) :
        x \in (UnsignedComparisons \X {1, 4, 32, 127})
              \cup (SignedComparisons \X {2, 4, 32, 64, 127, 128})}

\* <<width of the left operand, width of the shift amount>>
ShiftWidths ==
    {<<1, 1>>, <<16, 6>>, <<32, 32>>, <<64, 64>>, <<128, 128>>, <<7, 7>>,
     <<32, 1>>, <<64, 1>>, <<128, 1>>, <<64, 7>>, <<16, 64>>, <<1, 128>>}

ShiftGraphs ==
    {BinOpGraph("ShiftBinOp", x[1], x[2][1], x[2][2], x[2][1],
                PortSamples(x[2][1]), ShiftSamples(x[2][1], x[2][2])) :
        x \in {"Shl", "Shr", "ShrArithmetic"} \X ShiftWidths}

SimpleGraphs ==
    {BinOpGraph("SimpleBinOp", x[1], x[2], x[2], x[2],
                PortSamples(x[2]), PortSamples(x[2])) :
        x \in {"BitAnd", "BitOr", "BitXor"} \X {1, 27}}

\* o = !i
NotGraph(w) ==
    Graph(<<"UnOp", "Not", w, 0>>,
          <<Input("top", "i", w), UnOp("top", 1, w)>>,
          <<>>, [top |-> [o |-> 2]], [i |-> Port(w, PortSamples(w))])

\* o = i.bits(high, low).bits(high2, low2)
BitsGraph(w, high, low, high2, low2) ==
    Graph(<<"Bits", w, high, low, high2, low2>>,
          <<Input("top", "i", w), Bits("top", 1, high, low),
            Bits("top", 2, high2, low2)>>,
          <<>>, [top |-> [o |-> 3]], [i |-> Port(w, PortSamples(w))])

BitsGraphs ==
    {BitsGraph(4, 3, 1, 2, 0), BitsGraph(4, 2, 2, 0, 0),
     BitsGraph(128, 126, 0, 99, 99), BitsGraph(128, 127, 64, 31, 0),
     BitsGraph(128, 123, 60, 63, 48), BitsGraph(100, 63, 32, 31, 0),
     BitsGraph(128, 127, 0, 95, 64), BitsGraph(128, 63, 0, 31, 0),
     BitsGraph(128, 127, 96, 15, 0), BitsGraph(1, 0, 0, 0, 0)}

\* o = i.bits(high, 0).repeat(count)
RepeatGraph(w, high, count) ==
    Graph(<<"Repeat", w, high, count>>,
          <<Input("top", "i", w), Bits("top", 1, high, 0),
            Repeat("top", 2, high + 1, count)>>,
          <<>>, [top |-> [o |-> 3]], [i |-> Port(w, PortSamples(w))])

RepeatGraphs ==
    {RepeatGraph(4, 3, 1), RepeatGraph(4, 3, 2), RepeatGraph(4, 3, 5),
     RepeatGraph(4, 3, 8), RepeatGraph(4, 3, 16), RepeatGraph(4, 0, 1),
     RepeatGraph(4, 0, 3), RepeatGraph(4, 0, 33), RepeatGraph(4, 3, 32),
     RepeatGraph(4, 0, 64), RepeatGraph(4, 0, 128), RepeatGraph(1, 0, 1),
     RepeatGraph(64, 63, 2)}

\* o = (lit.concat(a)).concat(b), lit a literal of width wl
ConcatGraph(wl, lit, wa, wb) ==
    Graph(<<"Concat", wl, wa, wb>>,
          <<Lit("top", lit, wl), Input("top", "a", wa), Input("top", "b", wb),
            Concat("top", 1, wl, 2, wa), Concat("top", 4, wl + wa, 3, wb)>>,
          <<>>, [top |-> [o |-> 5]],
          [a |-> Port(wa, PortSamples(wa)), b |-> Port(wb, PortSamples(wb))])

ConcatGraphs ==
    {ConcatGraph(1, {0}, 4, 4), ConcatGraph(1, {}, 1, 1),
     ConcatGraph(32, {0, 31}, 32, 32), ConcatGraph(3, {0, 2}, 60, 65),
     ConcatGraph(1, {0}, 1, 126), ConcatGraph(64, {0, 63}, 32, 32)}

\* o = if c { a } else { !a }
MuxGraph(w) ==
    Graph(<<"Mux", w>>,
          <<Input("top", "c", 1), Input("top", "a", w), UnOp("top", 2, w),
            Mux("top", 1, 2, 3, w)>>,
          <<>>, [top |-> [o |-> 4]],
          [c |-> Port(1, PortSamples(1)), a |-> Port(w, PortSamples(w))])

MuxGraphs == {MuxGraph(1), MuxGraph(7), MuxGraph(64)}

\* the ports of the modules with four inputs: port k lacks bit k, always for
\* i2 and i4, or not for i1 and i3
FourPorts(w) ==
    [i1 |-> Port(w, {Range(w), Range(w) \ {1}}),
     i2 |-> Port(w, {Range(w) \ {2}}),
     i3 |-> Port(w, {Range(w), Range(w) \ {3}}),
     i4 |-> Port(w, {Range(w) \ {4}})]

\* InstantiationTestModuleComb: three instances of an AND,
\* o = inner3(inner1(i1, i2), inner2(i3, i4))
InstantiationTestModuleComb(w) ==
    Graph(<<"InstantiationTestModuleComb", w>>,
          <<Input("Inner", "i1", w), Input("Inner", "i2", w),
            BinOp("Inner", "SimpleBinOp", "BitAnd", 1, 2, w),
            Input("top", "i1", w), Input("top", "i2", w),
            Input("top", "i3", w), Input("top", "i4", w),
            InstanceOutput("top", 1, "o", w), InstanceOutput("top", 2, "o", w),
            InstanceOutput("top", 3, "o", w)>>,
          <<Instance("top", "Inner", [i1 |-> 4, i2 |-> 5]),
            Instance("top", "Inner", [i1 |-> 6, i2 |-> 7]),
            Instance("top", "Inner", [i1 |-> 8, i2 |-> 9])>>,
          [Inner |-> [o |-> 3], top |-> [o |-> 10]],
          FourPorts(w))

\* InstantiationTestModuleReg: the same, the inner module registering its AND
InstantiationTestModuleReg(w) ==
    Graph(<<"InstantiationTestModuleReg", w>>,
          <<Input("Inner", "i1", w), Input("Inner", "i2", w),
            BinOp("Inner", "SimpleBinOp", "BitAnd", 1, 2, w),
            Input("top", "i1", w), Input("top", "i2", w),
            Input("top", "i3", w), Input("top", "i4", w),
            InstanceOutput("top", 1, "o", w), InstanceOutput("top", 2, "o", w),
            InstanceOutput("top", 3, "o", w),
            Reg("Inner", "r", w, 3)>>,
          <<Instance("top", "Inner", [i1 |-> 4, i2 |-> 5]),
            Instance("top", "Inner", [i1 |-> 6, i2 |-> 7]),
            Instance("top", "Inner", [i1 |-> 8, i2 |-> 9])>>,
          [Inner |-> [o |-> 11], top |-> [o |-> 10]],
          FourPorts(w))

\* NestedInstantiationTestModule: the inner module passes its AND through an
\* instance of a module that is a wire
NestedInstantiationTestModule(w) ==
    Graph(<<"NestedInstantiationTestModule", w>>,
          <<Input("InnerInner", "i", w),
            Input("Inner", "i1", w), Input("Inner", "i2", w),
            BinOp("Inner", "SimpleBinOp", "BitAnd", 2, 3, w),
            InstanceOutput("Inner", 1, "o", w),
            Input("top", "i1", w), Input("top", "i2", w),
            Input("top", "i3", w), Input("top", "i4", w),
            InstanceOutput("top", 2, "o", w), InstanceOutput("top", 3, "o", w),
            InstanceOutput("top", 4, "o", w)>>,
          <<Instance("Inner", "InnerInner", [i |-> 4]),
            Instance("top", "Inner", [i1 |-> 6, i2 |-> 7]),
            Instance("top", "Inner", [i1 |-> 8, i2 |-> 9]),
            Instance("top", "Inner", [i1 |-> 10, i2 |-> 11])>>,
          [InnerInner |-> [o |-> 1], Inner |-> [o |-> 5], top |-> [o |-> 12]],
          FourPorts(w))

\* registers whose declared names coincide, end in digits or end in "_next":
\* o1 = (r ^ r') , o2 = r_0 | r_0_next, o3 = r_1; each register holds !itself
\* or the input
RegNamesGraph ==
    Graph(<<"RegNames">>,
          <<Input("top", "i", 1),
            Reg("top", "r", 1, 1), Reg("top", "r", 1, 7),
            Reg("top", "r_0", 1, 1), Reg("top", "r_0_next", 1, 4),
            Reg("top", "r_1", 1, 1),
            UnOp("top", 3, 1),
            BinOp("top", "SimpleBinOp", "BitXor", 2, 3, 1),
            BinOp("top", "SimpleBinOp", "BitOr", 4, 5, 1)>>,
          <<>>,
          [top |-> [o1 |-> 8, o2 |-> 9, o3 |-> 6]],
          [i |-> Port(1, PortSamples(1))])

-----------------------------------------------------------------------------
(* The state machine: the calls a code generator makes on one Compiler,    *)
(* and the run of the assignments it emitted.                              *)

\* the number of gather_regs calls and of compile_signal calls made on one
\* compiler
MaxGathers == 2
MaxCompiles == 2

Signals(g) == DOMAIN g.sigs

ModuleOf(g, context) ==
    IF IsRoot(context) THEN "top"
    ELSE g.insts[ContextInstance(context)].instantiated_module

\* the contexts of a graph: the instance paths from the top module
RECURSIVE ContextsFrom(_, _)
ContextsFrom(g, context) ==
    {context} \cup
    UNION {ContextsFrom(g, get_child(context, i)) :
              i \in {j \in DOMAIN g.insts : g.insts[j].parent = ModuleOf(g, context)}}

Contexts(g) == ContextsFrom(g, RootContext)

\* a signal together with a context that designates the signal's module
CallPairs(g) ==
    {p \in Signals(g) \X Contexts(g) : g.sigs[p[1]].module = ModuleOf(g, p[2])}

\* the last call made: hit is whether compile_signal found its pair memoized
NoCall ==
    [op |-> "none", signal |-> 0, context |-> <<>>, ret |-> <<>>, hit |-> FALSE]

\* the names of the members an expression reads
RECURSIVE MemberRefs(_)
MemberRefs(e) ==
    CASE e[1] = "Constant" -> {}
      [] e[1] = "Ref" -> IF e[2] = "Member" THEN {e[3]} ELSE {}
      [] e[1] \in {"UnOp", "Cast"} -> MemberRefs(e[3])
      [] e[1] \in {"InfixBinOp", "UnaryMemberCall", "BinaryFunctionCall"} ->
            MemberRefs(e[3]) \cup MemberRefs(e[4])
      [] e[1] = "Ternary" ->
            MemberRefs(e[2]) \cup MemberRefs(e[3]) \cup MemberRefs(e[4])

\* the names of the temporaries an expression reads
RECURSIVE LocalRefs(_)
LocalRefs(e) ==
    CASE e[1] = "Constant" -> {}
      [] e[1] = "Ref" -> IF e[2] = "Local" THEN {e[3]} ELSE {}
      [] e[1] \in {"UnOp", "Cast"} -> LocalRefs(e[3])
      [] e[1] \in {"InfixBinOp", "UnaryMemberCall", "BinaryFunctionCall"} ->
            LocalRefs(e[3]) \cup LocalRefs(e[4])
      [] e[1] = "Ternary" ->
            LocalRefs(e[2]) \cup LocalRefs(e[3]) \cup LocalRefs(e[4])

Compiler == [regs |-> regs, signal_exprs |-> signal_exprs,
             prop_assignments |-> prop_assignments, local_count |-> local_count,
             first_ret |-> first_ret, ok |-> TRUE]

\* Compiler::new
InitCompiler ==
    /\ regs = <<>>
    /\ signal_exprs = <<>>
    /\ prop_assignments = <<>>
    /\ local_count = 0
    /\ call = NoCall
    /\ first_ret = <<>>
    /\ members = <<>>
    /\ locals = <<>>
    /\ ncalls = 0
    /\ ngathers = 0
    /\ gather = GatherIdle

HierarchyGraphs ==
    <<InstantiationTestModuleComb(32), InstantiationTestModuleReg(32),
      NestedInstantiationTestModule(32), RegNamesGraph>>

Init ==
    /\ \E i \in DOMAIN HierarchyGraphs : graph = HierarchyGraphs[i]
    /\ InitCompiler
    /\ VerilogIdle

GatherRegs(signal, context) ==
    /\ call.op \in {"none", "gather_regs"}
    /\ ngathers < MaxGathers
    /\ ngathers' = ngathers + 1
    /\ regs' = gather_regs(graph, regs, signal, context)
    /\ call' = [op |-> "gather_regs", signal |-> signal, context |-> context,
                ret |-> <<>>, hit |-> FALSE]
    /\ UNCHANGED <<graph, signal_exprs, prop_assignments, local_count, first_ret,
                   members, locals, ncalls>>
    /\ UNCHANGED verilog_vars
    /\ UNCHANGED gather

CompileSignal(signal, context) ==
    /\ call.op # "prop"
    /\ ncalls < MaxCompiles
    /\ \E r \in {compile_signal(graph, Compiler, signal, context)} :
          /\ r.st.ok
          /\ regs' = r.st.regs
          /\ signal_exprs' = r.st.signal_exprs
          /\ prop_assignments' = r.st.prop_assignments
          /\ local_count' = r.st.local_count
          /\ first_ret' = r.st.first_ret
          /\ call' = [op |-> "compile_signal", signal |-> signal,
                      context |-> context, ret |-> r.e,
                      hit |-> MemoHit(Compiler, <<context, signal>>)]
    /\ ncalls' = ncalls + 1
    /\ UNCHANGED <<graph, members, locals, ngathers>>
    /\ UNCHANGED verilog_vars
    /\ UNCHANGED gather

\* the values the members can hold: a port any value of its native type among
\* the port's samples, a register a value of its width
MemberSamples(g, rs) ==
    [n \in DOMAIN g.ports |->
        {<<from_bit_width(g.ports[n].bit_width), v>> : v \in g.ports[n].samples}]
    @@
    [n \in {rs[k].value_name : k \in DOMAIN rs} |->
        LET k == CHOOSE k \in DOMAIN rs : rs[k].value_name = n
            w == g.sigs[k[2]].bit_width
        IN {<<from_bit_width(w), v>> : v \in {Range(w), Range(w) \ {0}}}]

RECURSIVE MemberChoices(_, _)
MemberChoices(names, samples) ==
    IF names = {} THEN {<<>>}
    ELSE LET n == CHOOSE x \in names : TRUE
         IN {Insert(f, n, v) : f \in MemberChoices(names \ {n}, samples),
                               v \in samples[n]}

\* the members the emitted assignments read
ReadMembers ==
    UNION {MemberRefs(prop_assignments[i].expr) : i \in DOMAIN prop_assignments}
    \cup UNION {MemberRefs(signal_exprs[k]) : k \in DOMAIN signal_exprs}

\* the generated prop(): with the members holding some values, the assignments
\* run in order
Prop ==
    /\ call.op = "compile_signal"
    /\ \E m \in MemberChoices(ReadMembers, MemberSamples(graph, regs)) :
          /\ members' = m
          /\ locals' = RunAssignments(prop_assignments, 1, Len(prop_assignments), <<>>, m)
    /\ call' = [call EXCEPT !.op = "prop"]
    /\ UNCHANGED <<graph, regs, signal_exprs, prop_assignments, local_count,
                   first_ret, ncalls, ngathers>>
    /\ UNCHANGED verilog_vars
    /\ UNCHANGED gather

Next ==
    \/ \E p \in CallPairs(graph) : GatherRegs(p[1], p[2])
    \/ \E p \in CallPairs(graph) : CompileSignal(p[1], p[2])
    \/ Prop

Spec == Init /\ [][Next]_vars

\* the operator test modules, one graph per operator and width
OperatorGraphs ==
    AdditiveGraphs \cup ComparisonGraphs \cup ShiftGraphs \cup SimpleGraphs
    \cup {NotGraph(w) : w \in {1, 4, 32, 100}} \cup BitsGraphs \cup RepeatGraphs
    \cup ConcatGraphs \cup MuxGraphs \cup InputGraphs

InitOps ==
    /\ graph \in OperatorGraphs
    /\ InitCompiler
    /\ VerilogIdle

SpecOps == InitOps /\ [][Next]_vars

-----------------------------------------------------------------------------
(* What the properties read off a state.                                   *)

\* the value of an emitted expression once the assignments have run
ValueOf(e) == EvalExpr(e, locals, members)

\* prop() has run after a compile_signal call on the output of an operator
\* test module
AfterOutput(kind) ==
    /\ call.op = "prop"
    /\ graph.name[1] = kind
    /\ call.signal = graph.outputs.top.o
    /\ call.context = RootContext

\* the value a root input port of the graph presents to the logic: the
\* member's low bit_width bits
PortValue(n) == Trunc(members[n][2], graph.ports[n].bit_width)

\* a value of width w held in the native type of that width
Clean(v, w) == v[1] = from_bit_width(w) /\ \A i \in v[2] : i < w

-----------------------------------------------------------------------------
\* C1: once prop() has run, the value of the Expr compile_signal holds for
\* any signal of width w, whatever its variant, is a value of the native
\* type of w whose bits at and above w are zero, for all port values (upper
\* bits included) and all clean register values.
C1_UpperBitsClean ==
    call.op = "prop" =>
        \A k \in DOMAIN signal_exprs :
            Clean(ValueOf(signal_exprs[k]), graph.sigs[k[2]].bit_width)

-----------------------------------------------------------------------------
\* C2: a compile_signal call on a pair that was compiled before, directly or
\* as an operand, after any earlier calls, appends no assignment, leaves
\* local_count alone and returns the Expr the pair's first compilation
\* returned; no temporary is ever assigned twice in the list.
NoDuplicateTargets(assignments) ==
    \A i, j \in DOMAIN assignments :
        i # j => assignments[i].target_name # assignments[j].target_name

C2_Memoization ==
    [][ncalls' = ncalls + 1 =>
          /\ NoDuplicateTargets(prop_assignments')
          /\ <<call'.context, call'.signal>> \in DOMAIN first_ret =>
                /\ prop_assignments' = prop_assignments
                /\ local_count' = local_count
                /\ call'.ret = first_ret[<<call'.context, call'.signal>>]]_vars

\* a second call on a root output whose first compilation emitted assignments
C2_Witness ==
    /\ call.op = "compile_signal"
    /\ call.hit
    /\ ncalls = 2
    /\ call.signal = graph.outputs.top.o
    /\ call.context = RootContext
    /\ Len(prop_assignments) >= 3

-----------------------------------------------------------------------------
\* C3: a register of a module instantiated at several paths has, once
\* gather_regs has run from the root output that reaches it through those
\* paths, one regs entry per path, any two of them with different value_name
\* and different next_name, and compile_signal on the register under a path
\* returns a reference to that path's value_name.
IsReg(s) == graph.sigs[s].kind = "Reg"

C3_InstancePaths ==
    /\ \A k1, k2 \in DOMAIN regs :
          (k1[2] = k2[2] /\ k1[1] # k2[1]) =>
              /\ regs[k1].value_name # regs[k2].value_name
              /\ regs[k1].next_name # regs[k2].next_name
    /\ (/\ graph.name[1] = "InstantiationTestModuleReg"
        /\ call.op = "gather_regs"
        /\ call.signal = graph.outputs.top.o) =>
          \A p \in CallPairs(graph) : IsReg(p[1]) => <<p[2], p[1]>> \in DOMAIN regs
    /\ \A k \in DOMAIN signal_exprs : IsReg(k[2]) =>
          /\ k \in DOMAIN regs
          /\ signal_exprs[k] = Ref("Member", regs[k].value_name)
    /\ \A k1, k2 \in DOMAIN signal_exprs :
          (IsReg(k1[2]) /\ k1[2] = k2[2] /\ k1[1] # k2[1]) =>
              signal_exprs[k1] # signal_exprs[k2]

\* the inner module's register, found under all three instances, compiled
\* under two of them
C3_Witness ==
    /\ graph.name[1] = "InstantiationTestModuleReg"
    /\ Cardinality(DOMAIN regs) = 3
    /\ call.op = "compile_signal"
    /\ \E k1, k2 \in DOMAIN signal_exprs :
          /\ IsReg(k1[2]) /\ k1[2] = k2[2] /\ k1[1] # k2[1]
          /\ call.signal = k1[2] /\ call.context = k1[1]

-----------------------------------------------------------------------------
(* The graph with every instance replaced by a copy of its module's body:  *)
(* a signal of the copy made for the instance path ctx is <<ctx, s>>; an   *)
(* instance's output is the copy of the module's output, an input of a     *)
(* copy is the signal that drives it.                                      *)

RECURSIVE Resolve(_, _, _)
Resolve(g, ctx, s) ==
    LET sig == g.sigs[s] IN
    IF sig.kind = "InstanceOutput"
    THEN Resolve(g, Append(ctx, sig.instance),
                 g.outputs[g.insts[sig.instance].instantiated_module][sig.name])
    ELSE IF sig.kind = "Input" /\ ctx # <<>>
    THEN Resolve(g, SubSeq(ctx, 1, Len(ctx) - 1),
                 g.insts[ctx[Len(ctx)]].driven_inputs[sig.name])
    ELSE <<ctx, s>>

InlinedSignal(g, ctx, s) ==
    LET sig == g.sigs[s]
        R(x) == IF x = 0 THEN 0 ELSE Resolve(g, ctx, x)
    IN [sig EXCEPT !.module = "top", !.source = R(@), !.lhs = R(@), !.rhs = R(@),
                   !.cond = R(@), !.when_true = R(@), !.when_false = R(@),
                   !.next = R(@)]

Inlined(g) ==
    LET ids == {Resolve(g, p[2], p[1]) : p \in CallPairs(g)}
    IN Graph(<<"Inlined", g.name>>,
             [id \in ids |-> InlinedSignal(g, id[1], id[2])],
             <<>>,
             [top |-> [n \in DOMAIN g.outputs.top |->
                          Resolve(g, <<>>, g.outputs.top[n])]],
             g.ports)

\* the value of signal `out` of the inlined graph, compiled on a fresh
\* compiler after gather_regs from it, its registers holding what the
\* registers they copy hold
InlinedValue(out) ==
    LET flat == Inlined(graph)
        flat_regs == gather_regs(flat, <<>>, out, <<>>)
        held == {k \in DOMAIN flat_regs :
                    k[2] \in DOMAIN regs /\ regs[k[2]].value_name \in DOMAIN members}
        mem == [n \in DOMAIN graph.ports \cap DOMAIN members |-> members[n]]
               @@ [n \in {flat_regs[k].value_name : k \in held} |->
                      members[regs[(CHOOSE k \in held :
                                      flat_regs[k].value_name = n)[2]].value_name]]
        c == compile_signal(flat,
                            [regs |-> flat_regs, signal_exprs |-> <<>>,
                             prop_assignments |-> <<>>, local_count |-> 0,
                             first_ret |-> <<>>, ok |-> TRUE],
                            out, <<>>)
    IN IF c.st.ok
       THEN EvalExpr(c.e,
                     RunAssignments(c.st.prop_assignments, 1,
                                    Len(c.st.prop_assignments), <<>>, mem),
                     mem)
       ELSE Error

\* prop() has run after compile_signal on a root output that is an
\* instance's output
AfterInstanceOutput ==
    /\ call.op = "prop"
    /\ call.context = RootContext
    /\ \E n \in DOMAIN graph.outputs.top : graph.outputs.top[n] = call.signal
    /\ graph.sigs[call.signal].kind = "InstanceOutput"

\* C4: the value computed for a root output that is an instance's output,
\* the instance's inputs driven by further (also nested) instances, is the
\* value computed by compiling the inlined graph; for the three 32-bit ANDs
\* wired as AND(AND(i1, i2), AND(i3, i4)) it is i1 & i2 & i3 & i4.
C4_HierarchyInlining ==
    AfterInstanceOutput =>
        /\ ValueOf(call.ret) # Error
        /\ ValueOf(call.ret) = InlinedValue(Resolve(graph, <<>>, call.signal))
        /\ graph.name[1] = "InstantiationTestModuleComb" =>
              ValueOf(call.ret) =
                  <<"U32", PortValue("i1") \cap PortValue("i2")
                           \cap PortValue("i3") \cap PortValue("i4")>>

\* the nested module's output computed with bit 3 of i3 clear and bit 1 of
\* i1 set
C4_Witness ==
    /\ AfterInstanceOutput
    /\ graph.name[1] = "NestedInstantiationTestModule"
    /\ ValueOf(call.ret) = <<"U32", Range(32) \ {2, 3, 4}>>

-----------------------------------------------------------------------------
\* C5: after any compile_signal calls, every temporary read by the
\* assignment at position i of prop_assignments is the target of an
\* assignment at a position before i, and every temporary read by an Expr
\* compile_signal returned or memoized is the target of an assignment in
\* the list.
TargetsBefore(i) == {prop_assignments[j].target_name : j \in 1 .. (i - 1)}

C5_DefinitionBeforeUse ==
    /\ \A i \in DOMAIN prop_assignments :
          LocalRefs(prop_assignments[i].expr) \subseteq TargetsBefore(i)
    /\ \A k \in DOMAIN signal_exprs :
          LocalRefs(signal_exprs[k]) \subseteq TargetsBefore(Len(prop_assignments) + 1)
    /\ call.op = "compile_signal" =>
          LocalRefs(call.ret) \subseteq TargetsBefore(Len(prop_assignments) + 1)

\* a returned temporary whose assignment reads earlier temporaries
C5_Witness ==
    /\ call.op = "compile_signal"
    /\ LocalRefs(call.ret) # {}
    /\ \E i \in DOMAIN prop_assignments :
          /\ Ref("Local", prop_assignments[i].target_name) = call.ret
          /\ Cardinality(LocalRefs(prop_assignments[i].expr)) = 2

-----------------------------------------------------------------------------
\* C6: after any gather_regs calls the value_name and next_name strings of
\* the regs table are pairwise distinct, registers that share a declared
\* name or whose declared name ends in digits or in "_next" included, and
\* an entry, once made, keeps its names when its register is reached again.
RegNames(rs) ==
    {rs[k].value_name : k \in DOMAIN rs} \cup {rs[k].next_name : k \in DOMAIN rs}

C6_RegNamesDistinct ==
    [][/\ Cardinality(RegNames(regs')) = 2 * Cardinality(DOMAIN regs')
       /\ \A k \in DOMAIN regs : k \in DOMAIN regs' /\ regs'[k] = regs[k]]_vars

\* two gather_regs calls have found the two registers declared "r", the
\* register declared "r_0" and the one declared "r_0_next"
C6_Witness ==
    /\ graph.name[1] = "RegNames"
    /\ ngathers = 2
    /\ {regs[k].data : k \in DOMAIN regs} = {"r", "r_0", "r_0_next"}
    /\ Cardinality(DOMAIN regs) = 4

-----------------------------------------------------------------------------
(* Sums and differences modulo 2^w, bit by bit: bit i of a + b is          *)
(* a_i xor b_i xor the carry into i, and a carry enters i when some lower  *)
(* position generates one that every position between passes on.           *)

Xor3(p, q, r) == (p # q) # r

CarryInto(a, b, i) ==
    \E j \in 0 .. (i - 1) :
        /\ j \in a /\ j \in b
        /\ \A k \in (j + 1) .. (i - 1) : k \in a \/ k \in b

BorrowInto(a, b, i) ==
    \E j \in 0 .. (i - 1) :
        /\ j \notin a /\ j \in b
        /\ \A k \in (j + 1) .. (i - 1) : ~(k \in a /\ k \notin b)

SumMod(a, b, w) == {i \in Range(w) : Xor3(i \in a, i \in b, CarryInto(a, b, i))}
DifferenceMod(a, b, w) ==
    {i \in Range(w) : Xor3(i \in a, i \in b, BorrowInto(a, b, i))}

\* C7: the value compiled for an AdditiveBinOp on operands of width w,
\* w = 1 and widths below the native width included, is (a + b) mod 2^w
\* for Add and (a - b) mod 2^w for Sub, in the native type of w.
C7_AddSubModular ==
    AfterOutput("AdditiveBinOp") =>
        LET w == graph.name[3]
            a == PortValue("a")
            b == PortValue("b")
            expected == IF graph.name[2] = "Add" THEN SumMod(a, b, w)
                        ELSE DifferenceMod(a, b, w)
        IN /\ ValueOf(call.ret) = <<from_bit_width(w), expected>>
           /\ w <= 7 =>
                 NatOfBits(ValueOf(call.ret)[2]) =
                     (IF graph.name[2] = "Add"
                      THEN NatOfBits(a) + NatOfBits(b)
                      ELSE NatOfBits(a) - NatOfBits(b)) % (2 ^ w)

\* 0 - 127 at width 7 gives 1
C7_Witness ==
    /\ AfterOutput("AdditiveBinOp")
    /\ graph.name = <<"AdditiveBinOp", "Sub", 7, 7>>
    /\ PortValue("a") = {}
    /\ PortValue("b") = Range(7)
    /\ ValueOf(call.ret) = <<"U32", {0}>>

-----------------------------------------------------------------------------
\* a shift amount, as a set of bits, is at least n (n < 256)
AmountAtLeast(s, n) == (\E i \in s : i >= 8) \/ NatOfBits(s) >= n

\* C8: the value compiled for a logical shift with a left operand of width
\* w_a and a shift amount s of any width from 1 to 128 bits is
\* (a << s) mod 2^w_a for Shl and a >> s for Shr when s < w_a, and zero
\* when s >= w_a.
C8_LogicalShifts ==
    (AfterOutput("ShiftBinOp") /\ graph.name[2] \in {"Shl", "Shr"}) =>
        LET w_a == graph.name[3]
            a == PortValue("a")
            s == PortValue("b")
            expected == IF AmountAtLeast(s, w_a) THEN {}
                        ELSE IF graph.name[2] = "Shl"
                        THEN {i \in Range(w_a) : i >= NatOfBits(s)
                                                 /\ (i - NatOfBits(s)) \in a}
                        ELSE {i \in Range(w_a) : (i + NatOfBits(s)) \in a}
        IN ValueOf(call.ret) = <<from_bit_width(w_a), expected>>

\* C9: the value compiled for an arithmetic shift right of a by s is a
\* shifted right by s with the vacated high bits holding a's sign bit
\* (bit w_a - 1) when s < w_a, and all ones or zero, as the sign bit is 1 or
\* 0, when s >= w_a.
C9_ArithmeticShift ==
    (AfterOutput("ShiftBinOp") /\ graph.name[2] = "ShrArithmetic") =>
        LET w_a == graph.name[3]
            a == PortValue("a")
            s == PortValue("b")
            sign == (w_a - 1) \in a
            expected == IF AmountAtLeast(s, w_a)
                        THEN (IF sign THEN Range(w_a) ELSE {})
                        ELSE {i \in Range(w_a) :
                                 IF i + NatOfBits(s) < w_a
                                 THEN (i + NatOfBits(s)) \in a ELSE sign}
        IN ValueOf(call.ret) = <<from_bit_width(w_a), expected>>

-----------------------------------------------------------------------------
(* Comparing two w-bit values as numbers: a < b unsigned when, at the      *)
(* highest position where they differ, b has the bit; as two's-complement  *)
(* numbers the sign bit w - 1 weighs -2^(w-1).                             *)

UnsignedLess(a, b, w) ==
    \E i \in Range(w) :
        /\ i \in b /\ i \notin a
        /\ \A j \in (i + 1) .. (w - 1) : (j \in a) = (j \in b)

SignedLess(a, b, w) ==
    IF ((w - 1) \in a) = ((w - 1) \in b) THEN UnsignedLess(a, b, w)
    ELSE (w - 1) \in a

\* the number a w-bit value stands for as two's complement, w <= 7
SignedNat(a, w) == IF (w - 1) \in a THEN NatOfBits(a) - 2 ^ w ELSE NatOfBits(a)

Compare(op, a, b, w) ==
    CASE op = "Equal" -> a = b
      [] op = "NotEqual" -> a # b
      [] op = "LessThan" -> UnsignedLess(a, b, w)
      [] op = "LessThanEqual" -> ~UnsignedLess(b, a, w)
      [] op = "GreaterThan" -> UnsignedLess(b, a, w)
      [] op = "GreaterThanEqual" -> ~UnsignedLess(a, b, w)
      [] op = "LessThanSigned" -> SignedLess(a, b, w)
      [] op = "LessThanEqualSigned" -> ~SignedLess(b, a, w)
      [] op = "GreaterThanSigned" -> SignedLess(b, a, w)
      [] op = "GreaterThanEqualSigned" -> ~SignedLess(a, b, w)

CompareNat(op, x, y) ==
    CASE op = "Equal" -> x = y
      [] op = "NotEqual" -> x # y
      [] op \in {"LessThan", "LessThanSigned"} -> x < y
      [] op \in {"LessThanEqual", "LessThanEqualSigned"} -> x <= y
      [] op \in {"GreaterThan", "GreaterThanSigned"} -> x > y
      [] op \in {"GreaterThanEqual", "GreaterThanEqualSigned"} -> x >= y

\* C10: the 1-bit value compiled for a ComparisonBinOp on operands of width
\* w is the comparison of the operands as unsigned numbers for Eq, Ne, Lt,
\* Le, Gt, Ge and as two's-complement numbers of width w for the signed
\* operators (w >= 2, w equal to the native width included).
C10_Comparisons ==
    AfterOutput("ComparisonBinOp") =>
        LET op == graph.name[2]
            w == graph.name[3]
            a == PortValue("a")
            b == PortValue("b")
        IN /\ ValueOf(call.ret) = <<"Bool", IF Compare(op, a, b, w) THEN {0} ELSE {}>>
           /\ w <= 7 =>
                 (ValueOf(call.ret)[2] = {0}) =
                     (IF op \in SignedComparisons
                      THEN CompareNat(op, SignedNat(a, w), SignedNat(b, w))
                      ELSE CompareNat(op, NatOfBits(a), NatOfBits(b)))

\* at width 4, -8 < 0 as two's-complement numbers
C10_Witness ==
    /\ AfterOutput("ComparisonBinOp")
    /\ graph.name = <<"ComparisonBinOp", "LessThanSigned", 4, 4>>
    /\ PortValue("a") = {3}
    /\ PortValue("b") = {}
    /\ ValueOf(call.ret) = <<"Bool", {0}>>

-----------------------------------------------------------------------------
\* the bits low .. high of v, moved down to position 0
Slice(v, high, low) == {i - low : i \in {j \in v : low <= j /\ j <= high}}

\* the Bits signals compiled under the root context
CompiledBits ==
    {k \in DOMAIN signal_exprs :
        k[1] = RootContext /\ graph.sigs[k[2]].kind = "Bits"}

\* C11: the value compiled for Bits{source, high, low}, low <= high <
\* source width, source width up to 128, is (source >> low) &
\* ((1 << (high - low + 1)) - 1) in the native type of high - low + 1: for
\* slices across a native-type boundary, 1-bit results and slices of slices.
C11_BitsSlice ==
    (call.op = "prop" /\ graph.name[1] = "Bits") =>
        \A k \in CompiledBits :
            LET sig == graph.sigs[k[2]]
                source == ValueOf(signal_exprs[<<k[1], sig.source>>])
                width == sig.range_high - sig.range_low + 1
            IN /\ ValueOf(signal_exprs[k]) =
                      <<from_bit_width(width),
                        Slice(source[2], sig.range_high, sig.range_low)>>
               /\ graph.sigs[sig.source].bit_width <= 7 =>
                     NatOfBits(ValueOf(signal_exprs[k])[2]) =
                         (NatOfBits(source[2]) \div (2 ^ sig.range_low))
                             % (2 ^ width)

\* i.bits(123, 60).bits(63, 48) of the all-ones 128-bit input is 0xffff
C11_Witness ==
    /\ AfterOutput("Bits")
    /\ graph.name = <<"Bits", 128, 123, 60, 63, 48>>
    /\ PortValue("i") = Range(128)
    /\ ValueOf(signal_exprs[<<RootContext, 2>>]) = <<"U64", Range(64)>>
    /\ ValueOf(call.ret) = <<"U32", Range(16)>>

-----------------------------------------------------------------------------
\* count copies of the w-bit value v, copy j at bits j * w .. j * w + w - 1
Copies(v, w, count) == {i + j * w : i \in v, j \in 0 .. (count - 1)}

\* C12: the value compiled for Repeat{source, count}, count >= 1 and
\* source width * count <= 128, a 1-bit source and count = 1 included, is
\* the OR over i in 0 .. count - 1 of source << (i * source width), held in
\* the native type of source width * count.
C12_RepeatCopies ==
    AfterOutput("Repeat") =>
        LET sig == graph.sigs[call.signal]
            w == graph.sigs[sig.source].bit_width
            source == ValueOf(signal_exprs[<<RootContext, sig.source>>])
        IN /\ sig.bit_width = w * sig.count
           /\ ValueOf(call.ret) =
                  <<from_bit_width(w * sig.count), Copies(source[2], w, sig.count)>>
           /\ Clean(ValueOf(call.ret), w * sig.count)
           /\ w * sig.count <= 8 =>
                 \A n \in 0 .. (w * sig.count - 1) :
                     n \in ValueOf(call.ret)[2] <=> (n % w) \in source[2]

\* 128 copies of a 1-bit 1 are the all-ones 128-bit value
C12_Witness ==
    /\ AfterOutput("Repeat")
    /\ graph.name = <<"Repeat", 4, 0, 128>>
    /\ ValueOf(signal_exprs[<<RootContext, 2>>]) = <<"Bool", {0}>>
    /\ ValueOf(call.ret) = <<"U128", Range(128)>>

-----------------------------------------------------------------------------
\* lhs above the wr bits of rhs
Joined(lhs, rhs, wr) == {i + wr : i \in lhs} \cup rhs

\* the Concat signals compiled under the root context
CompiledConcats ==
    {k \in DOMAIN signal_exprs :
        k[1] = RootContext /\ graph.sigs[k[2]].kind = "Concat"}

\* C13: the value compiled for Concat{lhs, rhs}, lhs width + rhs width <=
\* 128, 1-bit operands and concats of concats included, is
\* (lhs << rhs width) | rhs, lhs in the high bits, held in the native type
\* of lhs width + rhs width.
C13_ConcatJoins ==
    (call.op = "prop" /\ graph.name[1] = "Concat") =>
        \A k \in CompiledConcats :
            LET sig == graph.sigs[k[2]]
                wl == graph.sigs[sig.lhs].bit_width
                wr == graph.sigs[sig.rhs].bit_width
                lhs == ValueOf(signal_exprs[<<k[1], sig.lhs>>])
                rhs == ValueOf(signal_exprs[<<k[1], sig.rhs>>])
            IN /\ sig.bit_width = wl + wr
               /\ ValueOf(signal_exprs[k]) =
                      <<from_bit_width(wl + wr), Joined(lhs[2], rhs[2], wr)>>
               /\ Clean(ValueOf(signal_exprs[k]), wl + wr)
               /\ wl + wr <= 8 =>
                     NatOfBits(ValueOf(signal_exprs[k])[2]) =
                         NatOfBits(lhs[2]) * (2 ^ wr) + NatOfBits(rhs[2])

\* (1'b1.concat(a)).concat(b) with a = 4'b1000, b = 4'b0101 is 9'b1_1000_0101
C13_Witness ==
    /\ AfterOutput("Concat")
    /\ graph.name = <<"Concat", 1, 4, 4>>
    /\ PortValue("a") = {3}
    /\ PortValue("b") = {0, 2}
    /\ ValueOf(signal_exprs[<<RootContext, 4>>]) = <<"U32", {3, 4}>>
    /\ ValueOf(call.ret) = <<"U32", {0, 2, 7, 8}>>

-----------------------------------------------------------------------------
\* the call is one on an Input signal under the root context
RootInputCall(c) ==
    /\ c.op \in {"compile_signal", "prop"}
    /\ graph.sigs[c.signal].kind = "Input"
    /\ c.context = RootContext

NativeWidth(w) == w = TypeBits(from_bit_width(w))

\* C14: for an Input of width w compiled under the root context, the
\* compiled value is the port value mod 2^w for every value of the port's
\* native type; when w is the native width (1, 32, 64, 128) the call
\* appends no assignment and returns the member reference to the port.
C14_RootInput ==
    [][/\ (call'.op = "prop" /\ RootInputCall(call')) =>
              LET sig == graph.sigs[call'.signal]
                  port == members'[sig.name]
                  value == EvalExpr(call'.ret, locals', members')
              IN /\ port[1] = from_bit_width(sig.bit_width)
                 /\ value = <<port[1], Trunc(port[2], sig.bit_width)>>
                 /\ sig.bit_width <= 7 =>
                       \* the port's bits at and above 8 are multiples of 2^w
                       NatOfBits(value[2]) =
                           NatOfBits(Trunc(port[2], 8)) % (2 ^ sig.bit_width)
       /\ (ncalls' = ncalls + 1 /\ RootInputCall(call')
           /\ NativeWidth(graph.sigs[call'.signal].bit_width)) =>
              /\ prop_assignments' = prop_assignments
              /\ local_count' = local_count
              /\ call'.ret = Ref("Member", graph.sigs[call'.signal].name)
      ]_vars

\* a 27-bit input driven with 0xffffffff reads 0x7ffffff
C14_Witness ==
    /\ call.op = "prop"
    /\ RootInputCall(call)
    /\ graph.name = <<"Input", 27>>
    /\ members["i"] = <<"U32", Range(32)>>
    /\ ValueOf(call.ret) = <<"U32", Range(27)>>

\* a 64-bit input compiled with nothing appended
C14_WitnessNative ==
    /\ call.op = "compile_signal"
    /\ RootInputCall(call)
    /\ graph.name = <<"Input", 64>>
    /\ prop_assignments = <<>>
    /\ call.ret = Ref("Member", "i")

-----------------------------------------------------------------------------
(* verilog::generate. The module handed to it is a record of its inputs,   *)
(* outputs, registers, mems and child modules; a signal is one of the few  *)
(* variants the modules below use. None stands for Option::None.           *)

None == <<>>
Some(x) == <<x>>

VSig0 == [kind |-> "None", name |-> "", bit_width |-> 0, value |-> {},
          index |-> 0, port |-> 0]
\* an input of the module being generated
VInput(name, w) == [VSig0 EXCEPT !.kind = "Input", !.name = name, !.bit_width = w]
VLit(value, w) == [VSig0 EXCEPT !.kind = "Lit", !.value = value, !.bit_width = w]
\* the value of the module's index-th register
VReg(index, w) == [VSig0 EXCEPT !.kind = "Reg", !.index = index, !.bit_width = w]
\* the value of the port-th read port of the module's index-th mem
VMemReadPortOutput(index, port, w) ==
    [VSig0 EXCEPT !.kind = "MemReadPortOutput", !.index = index, !.port = port,
                  !.bit_width = w]
\* the output called name of the module's index-th child module
VInstanceOutput(index, name, w) ==
    [VSig0 EXCEPT !.kind = "InstanceOutput", !.index = index, !.name = name,
                  !.bit_width = w]

\* an input of a module: its Input signal, and what drives it when the
\* module is a child (None: undriven)
VPort(name, w, driven_value) ==
    [name |-> name, value |-> VInput(name, w), driven_value |-> driven_value]
VOutput(name, source) == [name |-> name, source |-> source]
RegisterData(name, w, initial_value, next) ==
    [name |-> name, bit_width |-> w, initial_value |-> initial_value, next |-> next]
Mem(name, address_bit_width, element_bit_width, initial_contents, read_ports,
    write_port) ==
    [name |-> name, address_bit_width |-> address_bit_width,
     element_bit_width |-> element_bit_width,
     initial_contents |-> initial_contents, read_ports |-> read_ports,
     write_port |-> write_port]
VModule(name, inputs, outputs, registers, mems, modules) ==
    [name |-> name, inputs |-> inputs, outputs |-> outputs,
     registers |-> registers, mems |-> mems, modules |-> modules]

-----------------------------------------------------------------------------
(* validate_module_hierarchy: the five checks, on the module and on every  *)
(* module below it.                                                        *)

RECURSIVE validate_module_hierarchy(_)
validate_module_hierarchy(m) ==
    LET UndrivenRegister ==
            \E k \in DOMAIN m.registers : m.registers[k].next = None
        UndrivenInstanceInput ==
            \E c \in DOMAIN m.modules :
                \E k \in DOMAIN m.modules[c].inputs :
                    m.modules[c].inputs[k].driven_value = None
        MemWithoutReadPorts ==
            \E k \in DOMAIN m.mems : m.mems[k].read_ports = <<>>
        MemWithoutInitialOrWritePort ==
            \E k \in DOMAIN m.mems :
                m.mems[k].initial_contents = None /\ m.mems[k].write_port = None
        \* an output of a child module reads one of the child's inputs, and
        \* that input is driven by this very output
        CombinationalLoop ==
            \E c \in DOMAIN m.modules :
                \E o \in DOMAIN m.modules[c].outputs,
                   i \in DOMAIN m.modules[c].inputs :
                    /\ m.modules[c].outputs[o].source = m.modules[c].inputs[i].value
                    /\ m.modules[c].inputs[i].driven_value =
                           Some(VInstanceOutput(c, m.modules[c].outputs[o].name,
                                                m.modules[c].inputs[i].value.bit_width))
    IN /\ ~UndrivenRegister
       /\ ~UndrivenInstanceInput
       /\ ~MemWithoutReadPorts
       /\ ~MemWithoutInitialOrWritePort
       /\ ~CombinationalLoop
       /\ \A c \in DOMAIN m.modules : validate_module_hierarchy(m.modules[c])

-----------------------------------------------------------------------------
(* The declaration tables generate builds: ModuleDecls.                    *)

InstanceDecls(module) ==
    [input_names |->
         [k \in DOMAIN module.inputs |->
             "__" \o module.name \o "_input_" \o module.inputs[k].name],
     output_names |->
         [k \in DOMAIN module.outputs |->
             "__" \o module.name \o "_output_" \o module.outputs[k].name]]

\* the names of the read port at position index (from 0) of mem.read_ports
ReadSignalNames(mem, index) ==
    LET mem_name == "__mem_" \o mem.name
        name_prefix == mem_name \o "_read_port_" \o ToString(index) \o "_"
    IN [address_name |-> name_prefix \o "address",
        enable_name |-> name_prefix \o "enable",
        value_name |-> name_prefix \o "value"]

\* the keys of the table of a mem's read ports, the (address, enable) pairs,
\* each once, in the order of their first insertion
ReadPortKeys(mem) ==
    LET firsts == {p \in DOMAIN mem.read_ports :
                      \A q \in 1 .. (p - 1) : mem.read_ports[q] # mem.read_ports[p]}
    IN [i \in 1 .. Cardinality(firsts) |->
           mem.read_ports[CHOOSE p \in firsts :
                              Cardinality({q \in firsts : q <= p}) = i]]

\* a pair inserted again leaves the names inserted first
MemDecls_KeepFirst(mem) ==
    LET mem_name == "__mem_" \o mem.name
        name_prefix == mem_name \o "_write_port_"
        FirstIndex(key) ==
            CHOOSE p \in DOMAIN mem.read_ports :
                /\ mem.read_ports[p] = key
                /\ \A q \in DOMAIN mem.read_ports :
                       mem.read_ports[q] = key => p <= q
    IN [read_signal_names |->
            [key \in {mem.read_ports[p] : p \in DOMAIN mem.read_ports} |->
                ReadSignalNames(mem, FirstIndex(key) - 1)],
        write_address_name |-> name_prefix \o "address",
        write_value_name |-> name_prefix \o "value",
        write_enable_name |-> name_prefix \o "enable"]

\* the table is keyed by the (address, enable) pair of a read port: a pair
\* inserted again replaces the names inserted before
MemDecls(mem) ==
    LET mem_name == "__mem_" \o mem.name
        name_prefix == mem_name \o "_write_port_"
        LastIndex(key) ==
            CHOOSE p \in DOMAIN mem.read_ports :
                /\ mem.read_ports[p] = key
                /\ \A q \in DOMAIN mem.read_ports :
                       mem.read_ports[q] = key => q <= p
    IN [read_signal_names |->
            [key \in {mem.read_ports[p] : p \in DOMAIN mem.read_ports} |->
                ReadSignalNames(mem, LastIndex(key) - 1)],
        write_address_name |-> name_prefix \o "address",
        write_value_name |-> name_prefix \o "value",
        write_enable_name |-> name_prefix \o "enable"]

\* the entry of the register inserted when the table holds n entries
RegisterDecls(data, n) ==
    LET value_name == "__reg_" \o data.name \o "_" \o ToString(n)
    IN [data |-> data, value_name |-> value_name,
        next_name |-> value_name \o "_next"]

ModuleDecls(m) ==
    [modules |-> [c \in DOMAIN m.modules |-> InstanceDecls(m.modules[c])],
     mems |-> [k \in DOMAIN m.mems |-> MemDecls(m.mems[k])],
     regs |-> [k \in DOMAIN m.registers |-> RegisterDecls(m.registers[k], k - 1)]]

-----------------------------------------------------------------------------
(* The Verilog signal compiler, for the signal variants above: each        *)
(* compiles to a reference to the net declared for it, a literal to a      *)
(* sized constant.                                                         *)

VRef(name) == <<"Ref", name>>
VConstant(w, value) == <<"Constant", w, value>>

verilog_compile_signal(m, signal, module_decls) ==
    CASE signal.kind = "Input" -> VRef(signal.name)
      [] signal.kind = "Lit" -> VConstant(signal.bit_width, signal.value)
      [] signal.kind = "Reg" -> VRef(module_decls.regs[signal.index].value_name)
      [] signal.kind = "MemReadPortOutput" ->
            VRef(module_decls.mems[signal.index].read_signal_names[
                     m.mems[signal.index].read_ports[signal.port]].value_name)
      [] signal.kind = "InstanceOutput" ->
            VRef("__" \o m.modules[signal.index].name \o "_output_"
                 \o signal.name)

VAssignment(target_name, expr) == [target_name |-> target_name, expr |-> expr]
NodeDecl(net_type, name, bit_width) ==
    [net_type |-> net_type, name |-> name, bit_width |-> bit_width]

-----------------------------------------------------------------------------
(* Formatting.                                                             *)

HexDigits ==
    <<"0", "1", "2", "3", "4", "5", "6", "7", "8", "9", "a", "b", "c", "d",
      "e", "f">>

\* the hex digit of bits 4 * n .. 4 * n + 3 of v
Nibble(v, n) ==
    HexDigits[1 + (IF (4 * n) \in v THEN 1 ELSE 0) + (IF (4 * n + 1) \in v THEN 2 ELSE 0)
                + (IF (4 * n + 2) \in v THEN 4 ELSE 0)
                + (IF (4 * n + 3) \in v THEN 8 ELSE 0)]

\* the digits n, n - 1, .. 0 of v
RECURSIVE HexFrom(_, _)
HexFrom(v, n) == IF n < 0 THEN "" ELSE Nibble(v, n) \o HexFrom(v, n - 1)

\* format!("{:x}", v): no leading zeros
LowerHex(v) ==
    IF v = {} THEN "0"
    ELSE HexFrom(v, (CHOOSE i \in v : \A j \in v : j <= i) \div 4)

\* "[w-1:0] " for a width above 1
RangePrefix(bit_width) ==
    IF bit_width > 1 THEN "[" \o ToString(bit_width - 1) \o ":" \o ToString(0) \o "] "
    ELSE ""

\* a line of text at an indentation level
Line(level, text) == <<level, text>>

NodeDeclLine(decl) ==
    Line(1, decl.net_type \o " " \o RangePrefix(decl.bit_width) \o decl.name \o ";")

AssignmentLine(assignment) ==
    LET expr == assignment.expr
        text == IF expr[1] = "Ref" THEN expr[2]
                ELSE ToString(expr[2]) \o "'h" \o LowerHex(expr[3])
    IN Line(1, "assign " \o assignment.target_name \o " = " \o text \o ";")

-----------------------------------------------------------------------------
(* Sequences.                                                              *)

RECURSIVE Flatten(_)
Flatten(seqs) == IF seqs = <<>> THEN <<>> ELSE Head(seqs) \o Flatten(Tail(seqs))

\* the orders in which a table of n entries can be iterated
Perms(n) ==
    {p \in [1 .. n -> 1 .. n] : \A i \in 1 .. n, j \in 1 .. n : p[i] = p[j] => i = j}

Identity(n) == [i \in 1 .. n |-> i]

\* the iteration orders of the tables of ModuleDecls in one run of generate:
\* a HashMap is iterated in an order that its hasher's random keys decide,
\* the same at each iteration of one table in one run; and whether the build
\* checks integer overflow (a debug build does, a release build wraps)
Orders(m) ==
    [modules : Perms(Len(m.modules)),
     input_names : {f \in [DOMAIN m.modules -> UNION {Perms(n) : n \in 0 .. 3}] :
                       \A c \in DOMAIN m.modules :
                           f[c] \in Perms(Len(m.modules[c].inputs))},
     output_names : {f \in [DOMAIN m.modules -> UNION {Perms(n) : n \in 0 .. 3}] :
                        \A c \in DOMAIN m.modules :
                            f[c] \in Perms(Len(m.modules[c].outputs))},
     mems : Perms(Len(m.mems)),
     read_signal_names : {f \in [DOMAIN m.mems -> UNION {Perms(n) : n \in 0 .. 3}] :
                             \A k \in DOMAIN m.mems :
                                 f[k] \in Perms(Len(ReadPortKeys(m.mems[k])))},
     regs : Perms(Len(m.registers)),
     overflow_checks : BOOLEAN]

\* the order of insertion
InsertionOrder(m) ==
    [modules |-> Identity(Len(m.modules)),
     input_names |-> [c \in DOMAIN m.modules |-> Identity(Len(m.modules[c].inputs))],
     output_names |-> [c \in DOMAIN m.modules |-> Identity(Len(m.modules[c].outputs))],
     mems |-> Identity(Len(m.mems)),
     read_signal_names |-> [k \in DOMAIN m.mems |-> Identity(Len(ReadPortKeys(m.mems[k])))],
     regs |-> Identity(Len(m.registers)),
     overflow_checks |-> TRUE]

-----------------------------------------------------------------------------
(* generate, lines 99 - 223: the signals it compiles, each with the target *)
(* its expression is assigned to, and the nets it declares. A signal is an *)
(* Option here: the next of a register is unwrapped, and the driver of an  *)
(* instance input is read, when it is compiled.                            *)

ToCompile(target_name, signal) == [target_name |-> target_name, signal |-> signal]

OutputsToCompile(m) ==
    [k \in DOMAIN m.outputs |-> ToCompile(m.outputs[k].name, Some(m.outputs[k].source))]

InstancesToCompile(m, module_decls, order) ==
    Flatten([i \in DOMAIN order.modules |->
        LET c == order.modules[i]
            inputs == order.input_names[c]
        IN [j \in DOMAIN inputs |->
               ToCompile(module_decls.modules[c].input_names[inputs[j]],
                         m.modules[c].inputs[inputs[j]].driven_value)]])

InstancesNodeDecls(m, module_decls, order) ==
    Flatten([i \in DOMAIN order.modules |->
        LET c == order.modules[i]
            inputs == order.input_names[c]
            outputs == order.output_names[c]
        IN [j \in DOMAIN inputs |->
               NodeDecl("wire", module_decls.modules[c].input_names[inputs[j]],
                        m.modules[c].inputs[inputs[j]].value.bit_width)]
           \o
           [j \in DOMAIN outputs |->
               NodeDecl("wire", module_decls.modules[c].output_names[outputs[j]],
                        m.modules[c].outputs[outputs[j]].source.bit_width)]])

MemsToCompile(m, module_decls, order) ==
    Flatten([i \in DOMAIN order.mems |->
        LET k == order.mems[i]
            mem == m.mems[k]
            ports == order.read_signal_names[k]
        IN Flatten([j \in DOMAIN ports |->
               LET key == ReadPortKeys(mem)[ports[j]]
                   names == module_decls.mems[k].read_signal_names[key]
               IN <<ToCompile(names.address_name, Some(key[1])),
                    ToCompile(names.enable_name, Some(key[2]))>>])
           \o (IF mem.write_port = None THEN <<>>
               ELSE LET mem_decls == module_decls.mems[k]
                    IN <<ToCompile(mem_decls.write_address_name,
                                   Some(mem.write_port[1][1])),
                         ToCompile(mem_decls.write_value_name,
                                   Some(mem.write_port[1][2])),
                         ToCompile(mem_decls.write_enable_name,
                                   Some(mem.write_port[1][3]))>>)])

MemsNodeDecls(m, module_decls, order) ==
    Flatten([i \in DOMAIN order.mems |->
        LET k == order.mems[i]
            mem == m.mems[k]
            ports == order.read_signal_names[k]
        IN Flatten([j \in DOMAIN ports |->
               LET key == ReadPortKeys(mem)[ports[j]]
                   names == module_decls.mems[k].read_signal_names[key]
               IN <<NodeDecl("wire", names.address_name, key[1].bit_width),
                    NodeDecl("wire", names.enable_name, key[2].bit_width),
                    NodeDecl("reg", names.value_name, mem.element_bit_width)>>])
           \o (IF mem.write_port = None THEN <<>>
               ELSE LET mem_decls == module_decls.mems[k]
                    IN <<NodeDecl("wire", mem_decls.write_address_name,
                                  mem.write_port[1][1].bit_width),
                         NodeDecl("wire", mem_decls.write_value_name,
                                  mem.write_port[1][2].bit_width),
                         NodeDecl("wire", mem_decls.write_enable_name,
                                  mem.write_port[1][3].bit_width)>>)])

RegsToCompile(m, module_decls, order) ==
    [i \in DOMAIN order.regs |->
        LET reg == module_decls.regs[order.regs[i]]
        IN ToCompile(reg.next_name, reg.data.next)]

RegsNodeDecls(m, module_decls, order) ==
    Flatten([i \in DOMAIN order.regs |->
        LET reg == module_decls.regs[order.regs[i]]
        IN <<NodeDecl("reg", reg.value_name, reg.data.bit_width),
             NodeDecl("wire", reg.next_name, reg.data.bit_width)>>])


-----------------------------------------------------------------------------
(* generate, lines 225 - 413: the text. A blank line is Line(0, "").       *)

BlankLine == Line(0, "")

\* a comma after every input
InputComma_Always(m, i) == TRUE

\* whether the input at position i (from 1) is followed by a comma
InputComma(m, i) == m.outputs # <<>> \/ i < Len(m.inputs)

OutputComma(m, i) == i < Len(m.outputs)

PortLines(m) ==
    <<Line(1, "input wire reset_n,")>>
    \o (IF m.inputs # <<>> \/ m.outputs # <<>>
        THEN <<Line(1, "input wire clk,"), BlankLine>>
        ELSE <<Line(1, "input wire clk")>>)
    \o [i \in DOMAIN m.inputs |->
           Line(1, "input wire " \o RangePrefix(m.inputs[i].value.bit_width)
                   \o m.inputs[i].name \o (IF InputComma(m, i) THEN "," ELSE ""))]
    \o [i \in DOMAIN m.outputs |->
           Line(1, "output wire " \o RangePrefix(m.outputs[i].source.bit_width)
                   \o m.outputs[i].name \o (IF OutputComma(m, i) THEN "," ELSE ""))]

\* the block of an instance; each connection after .clk begins on a new line
\* after a comma, and ");" ends the last line
InstanceLines(instance, instance_decls, inputs, outputs) ==
    LET connections ==
            <<".clk(clk)">>
            \o [j \in DOMAIN inputs |->
                   "." \o instance.inputs[inputs[j]].name \o "("
                   \o instance_decls.input_names[inputs[j]] \o ")"]
            \o [j \in DOMAIN outputs |->
                   "." \o instance.outputs[outputs[j]].name \o "("
                   \o instance_decls.output_names[outputs[j]] \o ")"]
    IN <<Line(1, instance.name \o " " \o instance.name \o "("),
         Line(2, ".reset_n(reset_n),")>>
       \o [j \in DOMAIN connections |->
              Line(2, connections[j]
                      \o (IF j < Len(connections) THEN "," ELSE ");"))]
       \o <<BlankLine>>

\* the guard is the write enable
ReadPortBlock_WriteEnable(mem, mem_decls, names) ==
    [guard |-> mem_decls.write_enable_name, target |-> names.value_name,
     mem |-> mem.name, address |-> names.address_name]

\* if (enable) begin value <= mem[address]; end
ReadPortBlock(mem, mem_decls, names) ==
    [guard |-> names.enable_name, target |-> names.value_name,
     mem |-> mem.name, address |-> names.address_name]

\* if (enable) begin mem[address] <= value; end
WritePortBlock(mem, mem_decls) ==
    IF mem.write_port = None THEN None
    ELSE Some([guard |-> mem_decls.write_enable_name, mem |-> mem.name,
               address |-> mem_decls.write_address_name,
               value |-> mem_decls.write_value_name])

\* (1 << mem.address_bit_width) - 1, the 1 an i32: None when the build checks
\* overflow and the shift count is 32 or more or the subtraction leaves the
\* i32 range; otherwise the shift count is taken modulo 32 and the
\* subtraction wraps from the least i32 to the greatest
MemLast(address_bit_width, overflow_checks) ==
    IF overflow_checks /\ address_bit_width >= 31 THEN None
    ELSE IF address_bit_width % 32 = 31 THEN Some((2 ^ 30 - 1) + 2 ^ 30)
    ELSE Some(2 ^ (address_bit_width % 32) - 1)

\* what is written for a mem: the array, the initial block, the always block
MemBlock(mem, mem_decls, ports, overflow_checks) ==
    [name |-> mem.name,
     element_bit_width |-> mem.element_bit_width,
     last |-> MemLast(mem.address_bit_width, overflow_checks),
     initial_contents |-> mem.initial_contents,
     reads |-> [j \in DOMAIN ports |->
                   ReadPortBlock(mem, mem_decls,
                                 mem_decls.read_signal_names[
                                     ReadPortKeys(mem)[ports[j]]])],
     write |-> WritePortBlock(mem, mem_decls)]

MemLines(block) ==
    <<Line(1, "reg " \o RangePrefix(block.element_bit_width) \o block.name
              \o "[" \o ToString(0) \o ":" \o ToString(block.last[1]) \o "];"),
      BlankLine>>
    \o (IF block.initial_contents = None THEN <<>>
        ELSE <<Line(1, "initial begin")>>
             \o [i \in DOMAIN block.initial_contents[1] |->
                    Line(2, block.name \o "[" \o ToString(i - 1) \o "] = "
                            \o ToString(block.element_bit_width) \o "'h"
                            \o LowerHex(block.initial_contents[1][i]) \o ";")]
             \o <<Line(1, "end"), BlankLine>>)
    \o (IF block.reads = <<>> /\ block.write = None THEN <<>>
        ELSE <<Line(1, "always @(posedge clk) begin")>>
             \o Flatten([j \in DOMAIN block.reads |->
                    <<Line(2, "if (" \o block.reads[j].guard \o ") begin"),
                      Line(3, block.reads[j].target \o " <= " \o block.reads[j].mem
                              \o "[" \o block.reads[j].address \o "];"),
                      Line(2, "end")>>])
             \o (IF block.write = None THEN <<>>
                 ELSE <<Line(2, "if (" \o block.write[1].guard \o ") begin"),
                        Line(3, block.write[1].mem \o "[" \o block.write[1].address
                                \o "] <= " \o block.write[1].value \o ";"),
                        Line(2, "end")>>)
             \o <<Line(1, "end"), BlankLine>>)

\* the reset branch never written
RegResetValue_None(data) == None

\* the value of the reset branch of a register's always block, if it has one
RegResetValue(data) == data.initial_value

\* a blocking assignment
RegAssignOp_Blocking == "="

RegAssignOp == "<="

\* what is written for a register: the always block
RegBlock(reg) ==
    [value_name |-> reg.value_name, next_name |-> reg.next_name,
     bit_width |-> reg.data.bit_width,
     reset |-> RegResetValue(reg.data),
     op |-> RegAssignOp]

RegLines(block) ==
    <<Line(1, "always @(posedge clk"
              \o (IF block.reset # None THEN ", negedge reset_n" ELSE "")
              \o ") begin")>>
    \o (IF block.reset # None
        THEN <<Line(2, "if (~reset_n) begin"),
               Line(3, block.value_name \o " " \o block.op \o " "
                       \o ToString(block.bit_width) \o "'h"
                       \o LowerHex(block.reset[1]) \o ";"),
               Line(2, "end"),
               Line(2, "else begin"),
               Line(3, block.value_name \o " " \o block.op \o " "
                       \o block.next_name \o ";"),
               Line(2, "end")>>
        ELSE <<Line(2, block.value_name \o " " \o block.op \o " "
                       \o block.next_name \o ";")>>)
    \o <<Line(1, "end"), BlankLine>>

-----------------------------------------------------------------------------
(* generate. It returns Ok or panics; lines is the text written to the     *)
(* sink, compiled the signals handed to compile_signal, in order.          *)

Panicked(compiled) ==
    [result |-> "panic", lines |-> <<>>, design |-> [compiled |-> compiled]]

\* generate after validation, lines 23 - 412
generate_body(m, order) ==
    LET module_decls == ModuleDecls(m)
        to_compile ==
            OutputsToCompile(m) \o InstancesToCompile(m, module_decls, order)
            \o MemsToCompile(m, module_decls, order)
            \o RegsToCompile(m, module_decls, order)
        undriven == {i \in DOMAIN to_compile : to_compile[i].signal = None}
    IN IF undriven # {}
       THEN \* Option::unwrap on None, before the writer is made
            Panicked([i \in 1 .. ((CHOOSE i \in undriven : \A j \in undriven : i <= j) - 1)
                         |-> to_compile[i].signal[1]])
       ELSE
       LET assignments ==
               [i \in DOMAIN to_compile |->
                   VAssignment(to_compile[i].target_name,
                               verilog_compile_signal(m, to_compile[i].signal[1],
                                                      module_decls))]
           node_decls ==
               InstancesNodeDecls(m, module_decls, order)
               \o MemsNodeDecls(m, module_decls, order)
               \o RegsNodeDecls(m, module_decls, order)
           mems == [i \in DOMAIN order.mems |->
                       MemBlock(m.mems[order.mems[i]], module_decls.mems[order.mems[i]],
                                order.read_signal_names[order.mems[i]],
                                order.overflow_checks)]
           blocks == [i \in DOMAIN order.regs |->
                         RegBlock(module_decls.regs[order.regs[i]])]
           head ==
               <<Line(0, "module " \o m.name \o "(")>>
               \o PortLines(m)
               \o <<Line(1, ");"), BlankLine>>
               \o (IF node_decls = <<>> THEN <<>>
                   ELSE [i \in DOMAIN node_decls |-> NodeDeclLine(node_decls[i])]
                        \o <<BlankLine>>)
               \o Flatten([i \in DOMAIN order.modules |->
                      InstanceLines(m.modules[order.modules[i]],
                                    module_decls.modules[order.modules[i]],
                                    order.input_names[order.modules[i]],
                                    order.output_names[order.modules[i]])])
           overflowed == {i \in DOMAIN mems : mems[i].last = None}
           compiled == [i \in DOMAIN to_compile |-> to_compile[i].signal[1]]
       IN IF overflowed # {}
          THEN \* arithmetic overflow while the array declaration of a mem is
               \* formatted: what was appended before stays in the sink
               LET first == CHOOSE i \in overflowed : \A j \in overflowed : i <= j
               IN [result |-> "panic",
                   lines |->
                       head
                       \o Flatten([i \in 1 .. (first - 1) |-> MemLines(mems[i])])
                       \o <<Line(1, "reg "
                                    \o RangePrefix(mems[first].element_bit_width))>>,
                   design |-> [compiled |-> compiled]]
          ELSE
          [result |-> "Ok",
           lines |->
               head
               \o Flatten([i \in DOMAIN mems |-> MemLines(mems[i])])
               \o Flatten([i \in DOMAIN blocks |-> RegLines(blocks[i])])
               \o (IF assignments = <<>> THEN <<>>
                   ELSE [i \in DOMAIN assignments |-> AssignmentLine(assignments[i])]
                        \o <<BlankLine>>)
               \o <<Line(0, "endmodule"), BlankLine>>,
           design |-> [compiled |-> compiled,
                       inputs |-> {m.inputs[i].name : i \in DOMAIN m.inputs},
                       mems |-> mems, regs |-> blocks,
                       assignments |-> assignments]]

\* no validation
generate_Unvalidated(m, order) == generate_body(m, order)

generate(m, order) ==
    IF ~validate_module_hierarchy(m) THEN Panicked(<<>>)
    ELSE generate_body(m, order)

-----------------------------------------------------------------------------
(* The written module under simulation. sim holds reset_n, the values of   *)
(* the inputs, of the regs and of the mems, the last event, and, since the *)
(* last release of reset_n, the inputs sampled at each rising edge of clk. *)
(* A reg or a mem element that nothing has written yet holds X.            *)

X == {-1}

\* the unsigned number a net of a few bits holds
RECURSIVE NetNat(_)
NetNat(v) == IF v = {} THEN 0
             ELSE LET i == CHOOSE i \in v : TRUE IN 2 ^ i + NetNat(v \ {i})

\* the value of a net: an input, a reg, or the wire an assign drives; a wire
\* an instance drives is not known
RECURSIVE NetValue(_, _, _)
NetValue(d, s, name) ==
    IF name \in d.inputs THEN s.inputs[name]
    ELSE IF name \in DOMAIN s.regs THEN s.regs[name]
    ELSE LET driving == {i \in DOMAIN d.assignments :
                            d.assignments[i].target_name = name}
         IN IF driving = {} THEN X
            ELSE LET expr == d.assignments[CHOOSE i \in driving : TRUE].expr
                 IN IF expr[1] = "Constant" THEN expr[3]
                    ELSE NetValue(d, s, expr[2])

\* the always blocks of the registers at a rising edge of clk, one after the
\* other from block i on: s is the state the blocks read, written what the
\* non-blocking assignments made so far will store when all blocks have run
RECURSIVE RegEdge(_, _, _, _)
RegEdge(d, s, written, i) ==
    IF i > Len(d.regs) THEN [n \in DOMAIN s.regs |->
                                IF n \in DOMAIN written THEN written[n] ELSE s.regs[n]]
    ELSE LET block == d.regs[i]
             value == IF block.reset # None /\ ~s.reset_n THEN block.reset[1]
                      ELSE NetValue(d, s, block.next_name)
         IN IF block.op = "<="
            THEN RegEdge(d, s, Insert(written, block.value_name, value), i + 1)
            ELSE RegEdge(d, [s EXCEPT !.regs[block.value_name] = value], written, i + 1)

\* the read ports of the mems: value <= mem[address] where the guard is 1
ReadEdge(d, s) ==
    [n \in DOMAIN s.regs |->
        LET reads == {r \in UNION {{d.mems[k].reads[j] : j \in DOMAIN d.mems[k].reads} :
                                      k \in DOMAIN d.mems} :
                         r.target = n /\ NetValue(d, s, r.guard) = {0}}
        IN IF reads = {} THEN s.regs[n]
           ELSE LET r == CHOOSE r \in reads : TRUE
                IN s.mems[r.mem][NetNat(NetValue(d, s, r.address)) + 1]]

\* the write ports of the mems: mem[address] <= value where the guard is 1
WriteEdge(d, s) ==
    [n \in DOMAIN s.mems |->
        LET writes == {k \in DOMAIN d.mems :
                          /\ d.mems[k].name = n
                          /\ d.mems[k].write # None
                          /\ NetValue(d, s, d.mems[k].write[1].guard) = {0}}
        IN IF writes = {} THEN s.mems[n]
           ELSE LET w == d.mems[CHOOSE k \in writes : TRUE].write[1]
                IN [s.mems[n] EXCEPT ![NetNat(NetValue(d, s, w.address)) + 1] =
                                         NetValue(d, s, w.value)]]

\* a rising edge of clk: every always block runs on the values before the edge
posedge_clk(d, s) ==
    LET after_regs == RegEdge(d, s, <<>>, 1)
        after_reads == ReadEdge(d, s)
    IN [s EXCEPT !.regs = [n \in DOMAIN s.regs |->
                              IF \E i \in DOMAIN d.regs : d.regs[i].value_name = n
                              THEN after_regs[n] ELSE after_reads[n]],
                 !.mems = WriteEdge(d, s),
                 !.event = "posedge clk",
                 !.hist = IF s.released /\ s.reset_n THEN Append(@, s.inputs) ELSE @]

\* a falling edge of reset_n: the blocks sensitive to it run their reset branch
negedge_reset_n(d, s) ==
    [s EXCEPT !.reset_n = FALSE,
              !.released = FALSE,
              !.event = "negedge reset_n",
              !.hist = <<>>,
              !.regs = [n \in DOMAIN s.regs |->
                           LET blocks == {i \in DOMAIN d.regs :
                                             d.regs[i].value_name = n
                                             /\ d.regs[i].reset # None}
                           IN IF blocks = {} THEN s.regs[n]
                              ELSE d.regs[CHOOSE i \in blocks : TRUE].reset[1]]]

\* the module as simulation starts: initial blocks have run
Elaborated(d, inputs) ==
    [reset_n |-> TRUE, released |-> FALSE, hist |-> <<>>, inputs |-> inputs,
     event |-> "initial",
     regs |-> [n \in {d.regs[i].value_name : i \in DOMAIN d.regs}
                     \cup UNION {{d.mems[k].reads[j].target : j \in DOMAIN d.mems[k].reads} :
                                    k \in DOMAIN d.mems} |-> X],
     mems |-> [n \in {d.mems[k].name : k \in DOMAIN d.mems} |->
                  LET mem == d.mems[CHOOSE k \in DOMAIN d.mems : d.mems[k].name = n]
                  IN [a \in 1 .. (mem.last[1] + 1) |->
                         IF mem.initial_contents # None
                            /\ a \in DOMAIN mem.initial_contents[1]
                         THEN mem.initial_contents[1][a] ELSE X]]]

-----------------------------------------------------------------------------
(* The modules generate is run on: the register and mem test modules of    *)
(* kaze-sim-tests/build.rs, the hierarchies of the tests of verilog.rs,    *)
(* and modules with zero to two inputs and outputs.                        *)

RegTestModule ==
    VModule("RegTestModule",
            <<VPort("i1", 32, None), VPort("i2", 32, None)>>,
            <<VOutput("o1", VReg(1, 32)), VOutput("o2", VReg(2, 32))>>,
            <<RegisterData("r1", 32, Some({}), Some(VInput("i1", 32))),
              RegisterData("r2", 32, None, Some(VInput("i2", 32)))>>,
            <<>>, <<>>)

SimpleRegDelay ==
    VModule("SimpleRegDelay",
            <<VPort("i", 100, None)>>,
            <<VOutput("o", VReg(3, 100))>>,
            <<RegisterData("r1", 100, Some({}), Some(VInput("i", 100))),
              RegisterData("r2", 100, Some({}), Some(VReg(1, 100))),
              RegisterData("r3", 100, Some({}), Some(VReg(2, 100)))>>,
            <<>>, <<>>)

\* no initial contents, a write port, a read port
MemTestModule0 ==
    VModule("MemTestModule0",
            <<VPort("read_addr", 1, None), VPort("read_enable", 1, None),
              VPort("write_addr", 1, None), VPort("write_enable", 1, None),
              VPort("write_value", 4, None)>>,
            <<VOutput("read_data", VMemReadPortOutput(1, 1, 4))>>,
            <<>>,
            <<Mem("mem", 1, 4, None,
                  <<<<VInput("read_addr", 1), VInput("read_enable", 1)>>>>,
                  Some(<<VInput("write_addr", 1), VInput("write_value", 4),
                         VInput("write_enable", 1)>>))>>,
            <<>>)

\* 0xfadebabe, 0xdeadbeef, 0xabadcafe, 0xabad1dea
MemTestContents ==
    <<{1, 2, 3, 4, 5, 7, 9, 11, 12, 13, 15, 17, 18, 19, 20, 22, 23, 25, 27, 28,
       29, 30, 31},
      {0, 1, 2, 3, 5, 6, 7, 9, 10, 11, 12, 13, 15, 16, 18, 19, 21, 23, 25, 26,
       27, 28, 30, 31},
      {1, 2, 3, 4, 5, 6, 7, 9, 11, 14, 15, 16, 18, 19, 21, 23, 24, 25, 27, 29, 31},
      {1, 3, 5, 6, 7, 8, 10, 11, 12, 16, 18, 19, 21, 23, 24, 25, 27, 29, 31}>>

\* initial contents, no write port, a read port
MemTestModule1 ==
    VModule("MemTestModule1",
            <<VPort("read_addr", 2, None), VPort("read_enable", 1, None)>>,
            <<VOutput("read_data", VMemReadPortOutput(1, 1, 32))>>,
            <<>>,
            <<Mem("mem", 2, 32, Some(MemTestContents),
                  <<<<VInput("read_addr", 2), VInput("read_enable", 1)>>>>,
                  None)>>,
            <<>>)

\* n_i inputs and n_o outputs of widths 1, 8, 1, ..
PortsModule(n_i, n_o) ==
    VModule("Ports" \o ToString(n_i) \o ToString(n_o),
            [i \in 1 .. n_i |-> VPort("i" \o ToString(i), IF i % 2 = 1 THEN 1 ELSE 8, None)],
            [i \in 1 .. n_o |->
                VOutput("o" \o ToString(i),
                        IF i % 2 = 1 THEN VLit({0}, 1) ELSE VLit({0, 7}, 8))],
            <<>>, <<>>, <<>>)

\* a child whose inputs the parent drives and whose output the parent reads
ChildB(i, j) ==
    VModule("B", <<VPort("i", 8, i), VPort("j", 1, j)>>,
            <<VOutput("o", VInput("i", 8)), VOutput("p", VInput("j", 1))>>,
            <<>>, <<>>, <<>>)

InstanceModule ==
    VModule("A", <<VPort("x", 8, None), VPort("y", 1, None)>>,
            <<VOutput("o", VInstanceOutput(1, "o", 8))>>,
            <<>>, <<>>,
            <<ChildB(Some(VInput("x", 8)), Some(VInput("y", 1)))>>)

\* a mem of 2^a elements written and read at address 0, and a mem of four
\* elements beside it
AddressWidthModule(a) ==
    VModule("AddressWidth" \o ToString(a), <<>>,
            <<VOutput("o", VMemReadPortOutput(1, 1, 1))>>,
            <<>>,
            <<Mem("wide", a, 1, None, <<<<VLit({}, a), VLit({0}, 1)>>>>,
                  Some(<<VLit({}, a), VLit({0}, 1), VLit({0}, 1)>>)),
              Mem("small", 2, 8, Some(<<{0}, {1, 7}, {}, {0, 1, 2, 3, 4, 5, 6, 7}>>),
                  <<<<VLit({0}, 2), VLit({0}, 1)>>>>, None)>>,
            <<>>)

\* a mem read through three read ports, the first and the last with the same
\* address and enable signals
SharedReadPortModule ==
    VModule("SharedReadPort",
            <<VPort("read_addr", 1, None), VPort("read_enable", 1, None)>>,
            <<VOutput("o0", VMemReadPortOutput(1, 1, 4)),
              VOutput("o1", VMemReadPortOutput(1, 2, 4)),
              VOutput("o2", VMemReadPortOutput(1, 3, 4))>>,
            <<>>,
            <<Mem("mem", 1, 4, Some(<<{0, 3}, {1}>>),
                  <<<<VInput("read_addr", 1), VInput("read_enable", 1)>>,
                    <<VLit({0}, 1), VInput("read_enable", 1)>>,
                    <<VInput("read_addr", 1), VInput("read_enable", 1)>>>>,
                  None)>>,
            <<>>)

\* a module A whose only content is a child module
ParentOf(child) == VModule("A", <<>>, <<>>, <<>>, <<>>, <<child>>)

\* the hierarchies validation rejects, the tests of verilog.rs in order:
\* undriven_instance_input_error, undriven_register_error1 and 2,
\* mem_without_read_ports_error1 and 2,
\* mem_without_initial_contents_or_write_port_error1 and 2,
\* combinational_loop_error; and last a module with an undriven register
\* and outputs that compile
InvalidModules ==
    LET undriven_register ==
            VModule("A", <<>>, <<>>, <<RegisterData("r", 1, None, None)>>, <<>>, <<>>)
        mem_without_read_ports ==
            VModule("A", <<>>, <<>>, <<>>, <<Mem("m", 1, 1, None, <<>>, None)>>, <<>>)
        mem_without_initial_contents_or_write_port ==
            VModule("A", <<>>, <<>>, <<>>,
                    <<Mem("m", 1, 1, None, <<<<VLit({}, 1), VLit({}, 1)>>>>, None)>>,
                    <<>>)
    IN <<ParentOf(VModule("B", <<VPort("i", 1, None)>>, <<>>, <<>>, <<>>, <<>>)),
         undriven_register,
         ParentOf([undriven_register EXCEPT !.name = "B"]),
         mem_without_read_ports,
         ParentOf([mem_without_read_ports EXCEPT !.name = "B"]),
         mem_without_initial_contents_or_write_port,
         ParentOf([mem_without_initial_contents_or_write_port EXCEPT !.name = "B"]),
         VModule("B", <<>>, <<>>, <<>>, <<>>,
                 <<VModule("A", <<VPort("i", 1, Some(VInstanceOutput(1, "o", 1)))>>,
                           <<VOutput("o", VInput("i", 1))>>, <<>>, <<>>, <<>>)>>),
         VModule("A", <<VPort("i", 1, None)>>,
                 <<VOutput("o", VInput("i", 1)), VOutput("q", VReg(1, 1))>>,
                 <<RegisterData("r", 1, None, None)>>, <<>>, <<>>)>>

ValidModules ==
    <<RegTestModule, SimpleRegDelay, MemTestModule0, MemTestModule1, InstanceModule,
      PortsModule(0, 0), PortsModule(0, 1), PortsModule(0, 2), PortsModule(1, 0),
      PortsModule(2, 0), PortsModule(1, 1), PortsModule(2, 2),
      AddressWidthModule(5), AddressWidthModule(30), AddressWidthModule(31),
      AddressWidthModule(32), AddressWidthModule(33), SharedReadPortModule>>

VerilogModules == ValidModules \o InvalidModules

\* the values an input of width w is driven with
InputSamples(w) == IF w = 2 THEN {{}, {1}} ELSE {{}, {0, w - 1}}

InputChoices(m) ==
    MemberChoices({m.inputs[i].name : i \in DOMAIN m.inputs},
                  [n \in {m.inputs[i].name : i \in DOMAIN m.inputs} |->
                      InputSamples((m.inputs[CHOOSE i \in DOMAIN m.inputs :
                                                 m.inputs[i].name = n]).value.bit_width)])

-----------------------------------------------------------------------------
(* The state machine of generate and of the module it wrote.               *)

MaxCycles == 4

\* the simulation elaborates the mems of up to 2^MaxSimAddressBits elements
MaxSimAddressBits == 2

Simulable(m) ==
    \A k \in DOMAIN m.mems : m.mems[k].address_bit_width <= MaxSimAddressBits

\* generate(m, w), the tables iterated in some order
Generate ==
    /\ vresult = "none"
    /\ \E order \in Orders(vmodule) :
          \E r \in {generate(vmodule, order)} :
              /\ vresult' = r.result
              /\ vout' = r.lines
              /\ design' = r.design
              /\ IF r.result = "Ok" /\ Simulable(vmodule)
                 THEN \E inputs \in InputChoices(vmodule) :
                          sim' = Elaborated(r.design, inputs)
                 ELSE sim' = sim
    /\ UNCHANGED vmodule
    /\ UNCHANGED sim_vars

\* the test bench changes the inputs
Drive(inputs) ==
    /\ vresult = "Ok"
    /\ Simulable(vmodule)
    /\ inputs # sim.inputs
    /\ sim' = [sim EXCEPT !.inputs = inputs, !.event = "inputs"]
    /\ UNCHANGED <<vmodule, vresult, vout, design>>
    /\ UNCHANGED sim_vars

\* reset_n falls; only the always blocks of the registers read reset_n
AssertReset ==
    /\ vresult = "Ok"
    /\ Simulable(vmodule)
    /\ sim.reset_n
    /\ design.regs # <<>>
    /\ sim' = negedge_reset_n(design, sim)
    /\ UNCHANGED <<vmodule, vresult, vout, design>>
    /\ UNCHANGED sim_vars

\* reset_n rises: no block is sensitive to it; cycle 0 begins
ReleaseReset ==
    /\ vresult = "Ok"
    /\ Simulable(vmodule)
    /\ ~sim.reset_n
    /\ sim' = [sim EXCEPT !.reset_n = TRUE, !.released = TRUE, !.hist = <<>>,
                           !.event = "posedge reset_n"]
    /\ UNCHANGED <<vmodule, vresult, vout, design>>
    /\ UNCHANGED sim_vars

\* clk rises
ClockEdge ==
    /\ vresult = "Ok"
    /\ Simulable(vmodule)
    /\ Len(sim.hist) < MaxCycles
    /\ sim' = posedge_clk(design, sim)
    /\ UNCHANGED <<vmodule, vresult, vout, design>>
    /\ UNCHANGED sim_vars

NextVerilog ==
    \/ Generate
    \/ \E inputs \in InputChoices(vmodule) : Drive(inputs)
    \/ AssertReset
    \/ ReleaseReset
    \/ ClockEdge

InitVerilog ==
    /\ graph = HierarchyGraphs[1]
    /\ InitCompiler
    /\ \E i \in DOMAIN VerilogModules : vmodule = VerilogModules[i]
    /\ vresult = "none"
    /\ vout = <<>>
    /\ design = <<>>
    /\ sim = <<>>

SpecVerilog == InitVerilog /\ [][NextVerilog]_vars

-----------------------------------------------------------------------------
\* the cycle the module is in since reset_n was released, from 0, and the
\* inputs sampled at the edge that ended cycle k
Cycle(s) == Len(s.hist)
SampledAt(s, k) == s.hist[k + 1]

\* reset_n was low and is high
AfterReset(s) == s.released /\ s.reset_n

\* the step is a rising edge of clk after reset
EdgeAfterReset == vresult = "Ok" /\ vresult' = "Ok" /\ Cycle(sim') = Cycle(sim) + 1

\* C15: in SimpleRegDelay (r1 <- i, r2 <- r1, r3 <- r2, all with initial
\* value 0, o = r3), after reset the output at cycle k is 0 for k in
\* {0, 1, 2} and the input sampled at cycle k - 3 for k >= 3; and a clock
\* edge moves every register's next value, as it was before the edge, into
\* its value: no register sees another's new value.
C15_RegisterDelay ==
    [][/\ (vresult' = "Ok" /\ vmodule'.name = "SimpleRegDelay" /\ AfterReset(sim')) =>
              NetValue(design', sim', "o") =
                  (IF Cycle(sim') < 3 THEN {}
                   ELSE SampledAt(sim', Cycle(sim') - 3)["i"])
       /\ EdgeAfterReset =>
              \A i \in DOMAIN design.regs :
                  sim'.regs[design.regs[i].value_name] =
                      NetValue(design, sim, design.regs[i].next_name)
      ]_vars

\* cycle 4: the output is the input of cycle 1, not that of cycles 2 and 3
C15_Witness ==
    /\ vresult = "Ok"
    /\ vmodule.name = "SimpleRegDelay"
    /\ AfterReset(sim)
    /\ Cycle(sim) = 4
    /\ SampledAt(sim, 1)["i"] = {0, 99}
    /\ SampledAt(sim, 2)["i"] = {}
    /\ SampledAt(sim, 3)["i"] = {}
    /\ NetValue(design, sim, "o") = {0, 99}

-----------------------------------------------------------------------------
\* the net names of the k-th register of the module
ValueNet(k) == ModuleDecls(vmodule).regs[k].value_name
NextNet(k) == ModuleDecls(vmodule).regs[k].next_name

\* the always block written for a register without a reset branch
PlainAlways(k) ==
    <<Line(1, "always @(posedge clk) begin"),
      Line(2, ValueNet(k) \o " <= " \o NextNet(k) \o ";"),
      Line(1, "end")>>

\* C16: a register with an initial value holds it whenever reset_n is low and
\* reads it at cycle 0 after reset release; a register without one has no
\* reset branch and is only ever written from its next wire; for both, a
\* clock edge with reset released makes the register's value the value its
\* next signal had before the edge.
C16_RegisterReset ==
    [][vresult' = "Ok" =>
          /\ Cardinality({j \in DOMAIN vout' :
                  vout'[j] = Line(1, "always @(posedge clk, negedge reset_n) begin")})
                 = Cardinality({k \in DOMAIN vmodule.registers :
                                   vmodule.registers[k].initial_value # None})
          /\ \A k \in DOMAIN vmodule.registers :
              LET data == vmodule.registers[k] IN
              /\ data.initial_value # None =>
                    /\ ~sim'.reset_n => sim'.regs[ValueNet(k)] = data.initial_value[1]
                    /\ (AfterReset(sim') /\ Cycle(sim') = 0) =>
                           sim'.regs[ValueNet(k)] = data.initial_value[1]
              /\ data.initial_value = None =>
                    /\ \E j \in DOMAIN vout' : SubSeq(vout', j, j + 2) = PlainAlways(k)
                    /\ (vresult = "Ok" /\ sim'.regs[ValueNet(k)] # sim.regs[ValueNet(k)]) =>
                           /\ sim'.event = "posedge clk"
                           /\ sim'.regs[ValueNet(k)] = NetValue(design, sim, NextNet(k))
              /\ (vresult = "Ok" /\ sim'.event = "posedge clk" /\ sim.reset_n) =>
                    sim'.regs[ValueNet(k)] = NetValue(design, sim, NextNet(k))
      ]_vars

\* RegTestModule at cycle 0: r1 reads its initial value, r2 what it sampled
\* while reset_n was low
C16_Witness ==
    /\ vresult = "Ok"
    /\ vmodule.name = "RegTestModule"
    /\ AfterReset(sim)
    /\ Cycle(sim) = 0
    /\ sim.inputs["i1"] = {0, 31}
    /\ sim.regs[ValueNet(1)] = {}
    /\ sim.regs[ValueNet(2)] = {0, 31}

\* one clock later both registers hold their inputs
C16_WitnessEdge ==
    /\ vresult = "Ok"
    /\ vmodule.name = "RegTestModule"
    /\ AfterReset(sim)
    /\ Cycle(sim) = 1
    /\ sim.event = "posedge clk"
    /\ sim.regs[ValueNet(1)] = {0, 31}
    /\ sim.regs[ValueNet(2)] = {0, 31}

-----------------------------------------------------------------------------
\* the value a signal that is an input or a literal has in state s
DriverValue(signal, s) ==
    IF signal.kind = "Input" THEN s.inputs[signal.name] ELSE signal.value

\* the net holding the value of read port p of the module's k-th mem
ReadValueNet(k, p) ==
    MemDecls(vmodule.mems[k]).read_signal_names[vmodule.mems[k].read_ports[p]].value_name

\* C17: for every read port, after a clock edge at which the port's enable
\* is 1 and its address is a, the port's value is the memory element at a
\* as it was before the edge, initial contents included; after a clock edge
\* at which enable is 0 the value is unchanged; nothing else changes it.
C17_SynchronousRead ==
    [][(vresult = "Ok" /\ vresult' = "Ok") =>
          \A k \in DOMAIN vmodule.mems :
              \A p \in DOMAIN vmodule.mems[k].read_ports :
                  LET mem == vmodule.mems[k]
                      address == DriverValue(mem.read_ports[p][1], sim)
                      enable == DriverValue(mem.read_ports[p][2], sim)
                      before == sim.regs[ReadValueNet(k, p)]
                      after == sim'.regs[ReadValueNet(k, p)]
                  IN IF sim'.event = "posedge clk" /\ enable = {0}
                     THEN /\ after = sim.mems[mem.name][NetNat(address) + 1]
                          /\ (mem.initial_contents # None /\ mem.write_port = None) =>
                                 after = mem.initial_contents[1][NetNat(address) + 1]
                     ELSE after = before
      ]_vars

\* MemTestModule1: address 2 read with enable 1 gives 0xabadcafe after the
\* edge, and read_data shows it
C17_Witness ==
    /\ vresult = "Ok"
    /\ vmodule.name = "MemTestModule1"
    /\ sim.event = "posedge clk"
    /\ sim.inputs["read_addr"] = {1}
    /\ sim.inputs["read_enable"] = {0}
    /\ sim.regs[ReadValueNet(1, 1)] = MemTestContents[3]
    /\ LowerHex(NetValue(design, sim, "read_data")) = "abadcafe"

\* MemTestModule0: a read at the address written at the same edge gives the
\* element as it was, here still X, and the element then holds the new value
C17_WitnessReadDuringWrite ==
    /\ vresult = "Ok"
    /\ vmodule.name = "MemTestModule0"
    /\ sim.event = "posedge clk"
    /\ sim.regs[ReadValueNet(1, 1)] = X
    /\ sim.mems["mem"][1] = {0, 3}
    /\ sim.mems["mem"][2] = X

-----------------------------------------------------------------------------
\* C18: two runs of generate on the same module write the same text,
\* whatever order the modules, mems and regs tables are iterated in: the
\* order of the net declarations, instance blocks, memory blocks, register
\* always blocks and assignments does not depend on it.
C18_Determinism ==
    vresult = "Ok" =>
        \A order \in Orders(vmodule) : generate(vmodule, order).lines = vout

\* RegTestModule written with the block of r2 before the block of r1
C18_Reordered ==
    /\ vresult = "Ok"
    /\ vmodule.name = "RegTestModule"
    /\ vout # generate(vmodule, InsertionOrder(vmodule)).lines
    /\ \E j \in DOMAIN vout :
           /\ vout[j] = Line(1, "reg [31:0] __reg_r2_1;")
           /\ vout[j + 2] = Line(1, "reg [31:0] __reg_r1_0;")

-----------------------------------------------------------------------------
\* generate was called on one of the hierarchies with a defect
DefectiveCall ==
    /\ vresult # "none"
    /\ \E i \in DOMAIN InvalidModules : vmodule = InvalidModules[i]

\* C19: generate on a hierarchy with an undriven register, an undriven
\* instance input, a mem without read ports, a mem with neither initial
\* contents nor a write port, or a combinational loop, in the top module or
\* below it, aborts in validation: no signal is compiled, nothing is
\* written to the sink, no Ok is returned.
C19_ValidationAborts ==
    DefectiveCall =>
        /\ vresult = "panic"
        /\ design.compiled = <<>>
        /\ vout = <<>>

\* the undriven register of a module whose outputs would compile
C19_Witness ==
    /\ DefectiveCall
    /\ vmodule = InvalidModules[9]
    /\ vresult = "panic"
    /\ design.compiled = <<>>
    /\ vout = <<>>

\* a defect in a child module
C19_WitnessChild ==
    /\ DefectiveCall
    /\ vmodule = InvalidModules[5]
    /\ vresult = "panic"

-----------------------------------------------------------------------------
\* the ports a module is to declare: reset_n, clk, its inputs, its outputs
DeclaredPorts(m) ==
    <<[dir |-> "input", name |-> "reset_n", w |-> 1],
      [dir |-> "input", name |-> "clk", w |-> 1]>>
    \o [i \in DOMAIN m.inputs |->
           [dir |-> "input", name |-> m.inputs[i].name,
            w |-> m.inputs[i].value.bit_width]]
    \o [i \in DOMAIN m.outputs |->
           [dir |-> "output", name |-> m.outputs[i].name,
            w |-> m.outputs[i].source.bit_width]]

PortText(port, last) ==
    port.dir \o " wire "
    \o (IF port.w > 1 THEN "[" \o ToString(port.w - 1) \o ":0] " ELSE "")
    \o port.name \o (IF last THEN "" ELSE ",")

\* the lines of the text between "module name(" and the first ");", blank
\* lines left out
WrittenPortList ==
    LET close == CHOOSE j \in DOMAIN vout :
                     /\ vout[j] = Line(1, ");")
                     /\ \A i \in 1 .. (j - 1) : vout[i] # Line(1, ");")
    IN SelectSeq(SubSeq(vout, 2, close - 1), LAMBDA l : l # BlankLine)

\* C20: for a module with n_i >= 0 inputs and n_o >= 0 outputs, the port
\* list written is reset_n, clk, the inputs, the outputs, in that order;
\* every port but the last is followed by a comma and the last is not; a
\* port has the range prefix [w-1:0] exactly when its width w is above 1.
C20_PortList ==
    vresult = "Ok" =>
        /\ vout[1] = Line(0, "module " \o vmodule.name \o "(")
        /\ WrittenPortList =
               [i \in DOMAIN DeclaredPorts(vmodule) |->
                   Line(1, PortText(DeclaredPorts(vmodule)[i],
                                    i = Len(DeclaredPorts(vmodule))))]

\* two inputs and no output: the last input ends the list
C20_Witness ==
    /\ vresult = "Ok"
    /\ vmodule = PortsModule(2, 0)
    /\ WrittenPortList =
           <<Line(1, "input wire reset_n,"), Line(1, "input wire clk,"),
             Line(1, "input wire i1,"), Line(1, "input wire [7:0] i2")>>

\* no input and no output: clk ends the list
C20_WitnessNoPorts ==
    /\ vresult = "Ok"
    /\ vmodule = PortsModule(0, 0)
    /\ WrittenPortList = <<Line(1, "input wire reset_n,"), Line(1, "input wire clk")>>

\* inputs and outputs: the last output ends the list
C20_WitnessBoth ==
    /\ vresult = "Ok"
    /\ vmodule = PortsModule(2, 2)
    /\ WrittenPortList =
           <<Line(1, "input wire reset_n,"), Line(1, "input wire clk,"),
             Line(1, "input wire i1,"), Line(1, "input wire [7:0] i2,"),
             Line(1, "output wire o1,"), Line(1, "output wire [7:0] o2")>>
-----------------------------------------------------------------------------
\* C21: the Expr compile_signal returns, and every Expr stored in the memo
\* table, is a reference: to a port of the top module, to the value storage
\* of a discovered register, or to a temporary the compiler assigned; never
\* a Constant or a compound expression.
IsReference(e) ==
    /\ e[1] = "Ref"
    /\ \/ /\ e[2] = "Member"
          /\ \/ e[3] \in DOMAIN graph.ports
             \/ \E k \in DOMAIN regs : regs[k].value_name = e[3]
       \/ /\ e[2] = "Local"
          /\ \E i \in DOMAIN prop_assignments :
                /\ prop_assignments[i].target_scope = "Local"
                /\ prop_assignments[i].target_name = e[3]

LitConstant(sig) ==
    Constant(from_bit_width(sig.bit_width),
             IF sig.bit_width = 1 THEN (IF sig.value # {} THEN {0} ELSE {})
             ELSE Trunc(sig.value, TypeBits(from_bit_width(sig.bit_width))))

ReferenceOrConstant(e) == IsReference(e) \/ e[1] = "Constant"

-----------------------------------------------------------------------------
\* C22: for a ShiftBinOp with operands of any two native types, the shift
\* count passed to checked_shl / checked_shr is min(rhs, U32::MAX) converted
\* to U32: the count is the min call itself when the right operand's widened
\* type is U32, and otherwise a temporary assigned the cast of that min call
\* to U32, whatever the left operand's type.
ShiftCalls ==
    {prop_assignments[i].expr[3] : i \in
        {i \in DOMAIN prop_assignments :
            /\ prop_assignments[i].expr[1] = "UnaryMemberCall"
            /\ prop_assignments[i].expr[2] = "unwrap_or"}}

IsClamp(e, t) ==
    /\ e[1] = "BinaryFunctionCall"
    /\ e[2] = "std::cmp::min"
    /\ e[4] = Constant(t, Range(32))

IsShiftCount(e, rhs_op_input_type) ==
    IF rhs_op_input_type = "U32" THEN IsClamp(e, "U32")
    ELSE /\ e[1] = "Ref" /\ e[2] = "Local"
         /\ \E i \in DOMAIN prop_assignments :
               /\ prop_assignments[i].target_name = e[3]
               /\ prop_assignments[i].expr[1] = "Cast"
               /\ prop_assignments[i].expr[2] = "U32"
               /\ IsClamp(prop_assignments[i].expr[3], rhs_op_input_type)

C22_ShiftCount ==
    (/\ graph.name[1] = "ShiftBinOp"
     /\ call.op = "compile_signal"
     /\ call.signal = graph.outputs.top.o) =>
        LET rhs_source_type == from_bit_width(graph.name[4])
            rhs_op_input_type ==
                IF rhs_source_type = "Bool" THEN "U32" ELSE rhs_source_type
        IN /\ ShiftCalls # {}
           /\ \A shifted \in ShiftCalls : IsShiftCount(shifted[4], rhs_op_input_type)
-----------------------------------------------------------------------------
\* C23: after any sequence of compile_signal calls the Local-scoped
\* assignments of prop_assignments are named __temp_0, __temp_1, ...,
\* __temp_(k-1) in list order, so each temporary is defined once, and
\* local_count is k.
IsLocalAssignment(a) == a.target_scope = "Local"

LocalAssignments == SelectSeq(prop_assignments, IsLocalAssignment)

C23_TempNames ==
    /\ Len(LocalAssignments) = local_count
    /\ \A i \in DOMAIN LocalAssignments :
          LocalAssignments[i].target_name = "__temp_" \o ToString(i - 1)
    /\ NoDuplicateTargets(LocalAssignments)

\* two calls have each appended temporaries, ten or more in all
C23_Witness ==
    /\ call.op = "compile_signal"
    /\ ncalls = 2
    /\ ~call.hit
    /\ local_count >= 10
    /\ \E i \in DOMAIN prop_assignments :
          /\ i < Len(prop_assignments)
          /\ Ref("Local", prop_assignments[i].target_name) \in
                {signal_exprs[k] : k \in DOMAIN signal_exprs}
-----------------------------------------------------------------------------
\* C24: a gather_regs call gives each (context, Reg) key it inserts the
\* names __reg_<declared name>_<N> and <value_name>_next, where the N of the
\* inserted keys are the table sizes from the size before the call up to the
\* size after it less one (a root that is itself a new register gets the
\* first), and it leaves the entries already present as they are; calling
\* gather_regs again on the same root under the same context, at once or
\* after another call, leaves the regs table unchanged.
Inserted(rs_before, rs_after) == DOMAIN rs_after \ DOMAIN rs_before

\* the N of an entry's value_name; the size of the table when no N below it
\* gives the name
SuffixOf(rs, k) ==
    LET Fits(n) ==
            rs[k].value_name = "__reg_" \o graph.sigs[k[2]].name \o "_" \o ToString(n)
        below == 0 .. (Cardinality(DOMAIN rs) - 1)
    IN IF \E n \in below : Fits(n) THEN CHOOSE n \in below : Fits(n)
       ELSE Cardinality(DOMAIN rs)

C24_DiscoveryNaming ==
    [][ngathers' = ngathers + 1 =>
          /\ \A k \in DOMAIN regs : k \in DOMAIN regs' /\ regs'[k] = regs[k]
          /\ \A k \in Inserted(regs, regs') :
                /\ graph.sigs[k[2]].kind = "Reg"
                /\ regs'[k].next_name = regs'[k].value_name \o "_next"
          /\ {SuffixOf(regs', k) : k \in Inserted(regs, regs')} =
                Cardinality(DOMAIN regs) .. (Cardinality(DOMAIN regs') - 1)
          /\ <<call'.context, call'.signal>> \in Inserted(regs, regs') =>
                SuffixOf(regs', <<call'.context, call'.signal>>) =
                    Cardinality(DOMAIN regs)
          /\ gather_regs(graph, regs', call'.signal, call'.context) = regs'
          /\ \A q \in CallPairs(graph) :
                LET later == gather_regs(graph, regs', q[1], q[2])
                IN gather_regs(graph, later, call'.signal, call'.context) = later]_vars

\* the second call has inserted registers after those of the first
C24_Witness ==
    /\ call.op = "gather_regs"
    /\ ngathers = 2
    /\ Cardinality(DOMAIN regs) >= 3
    /\ \E k \in DOMAIN regs : SuffixOf(regs, k) = 0 /\ k[1] # call.context
    /\ <<call.context, call.signal>> \in DOMAIN regs
    /\ SuffixOf(regs, <<call.context, call.signal>>) >= 1
-----------------------------------------------------------------------------
\* C25: generate on a module that passes validation returns Ok, and for
\* every mem, of any address width a, the text holds the array declaration
\* with index range [0:2^a - 1] and, when the mem has initial contents, one
\* line name[i] = <element width>'h<hex> per element i.
Pow2Minus1Text(a) ==
    CASE a <= 30 -> ToString(2 ^ a - 1)
      [] a = 31 -> "2147483647"
      [] a = 32 -> "4294967295"
      [] a = 33 -> "8589934591"

ArrayDeclaration(mem) ==
    Line(1, "reg " \o RangePrefix(mem.element_bit_width) \o mem.name
            \o "[0:" \o Pow2Minus1Text(mem.address_bit_width) \o "];")

InitialLine(mem, i) ==
    Line(2, mem.name \o "[" \o ToString(i) \o "] = " \o ToString(mem.element_bit_width)
            \o "'h" \o LowerHex(mem.initial_contents[1][i + 1]) \o ";")

Written(line) == \E j \in DOMAIN vout : vout[j] = line

C25_MemDeclaration ==
    (vresult # "none" /\ validate_module_hierarchy(vmodule)) =>
        /\ vresult = "Ok"
        /\ \A k \in DOMAIN vmodule.mems :
              LET mem == vmodule.mems[k] IN
              /\ Written(ArrayDeclaration(mem))
              /\ mem.initial_contents # None =>
                    \A i \in 0 .. (Len(mem.initial_contents[1]) - 1) :
                        Written(InitialLine(mem, i))
-----------------------------------------------------------------------------
\* C26: once gather_regs has run on a root signal under a context, the
\* compile_signal call on that signal under that context finds every
\* (context, Reg) key it looks up in the regs table, and so does the
\* compile_signal call on the next signal of every register in the table
\* under the register's own context: the lookup of the Reg case never fails.
Discovered(rs) == [Compiler EXCEPT !.regs = rs]

C26_DiscoveryCoversCompilation ==
    [][ngathers' = ngathers + 1 =>
          /\ compile_signal(graph, Discovered(regs'), call'.signal, call'.context).st.ok
          /\ \A k \in DOMAIN regs' :
                compile_signal(graph, Discovered(regs'), graph.sigs[k[2]].next, k[1]).st.ok
      ]_vars

\* the root output was compiled after discovery and looked up the register
\* of the inner module under two instance contexts or more
C26_Witness ==
    /\ graph.name[1] = "InstantiationTestModuleReg"
    /\ call.op = "compile_signal"
    /\ call.signal = graph.outputs.top.o
    /\ call.context = RootContext
    /\ ngathers >= 1
    /\ Cardinality({k \in DOMAIN signal_exprs : IsReg(k[2]) /\ ~IsRoot(k[1])}) >= 2
    /\ \A k \in DOMAIN signal_exprs : IsReg(k[2]) => k \in DOMAIN regs
-----------------------------------------------------------------------------
(* gather_regs step by step: one step is the body of one call, up to the    *)
(* calls it makes. The calls of a body are made one after another and       *)
(* return nothing, so the calls still to be made form a stack, the next     *)
(* one on top.                                                              *)

\* a lookup that never finds the key
contains_key_Never(rs, key) == FALSE

contains_key(rs, key) == key \in DOMAIN rs

\* the body of gather_regs(signal, context): the table it leaves, the calls
\* it makes, in order, and the keys whose next signal it enters
gather_regs_step(g, rs, signal, context) ==
    LET sig == g.sigs[signal]
        Calls(operands) == [i \in DOMAIN operands |-> <<operands[i], context>>]
        Step(table, calls, entered) ==
            [regs |-> table, calls |-> calls, entered |-> entered]
    IN CASE sig.kind = "Lit" -> Step(rs, <<>>, {})
         [] sig.kind = "Input" ->
               IF ~IsRoot(context)
               THEN Step(rs,
                         <<<<g.insts[ContextInstance(context)].driven_inputs[sig.name],
                             ContextParent(context)>>>>,
                         {})
               ELSE Step(rs, <<>>, {})
         [] sig.kind = "Reg" ->
               LET key == <<context, signal>> IN
               IF contains_key(rs, key) THEN Step(rs, <<>>, {})
               ELSE Step(Insert(rs, key, CompiledRegister(sig, Cardinality(DOMAIN rs))),
                         Calls(<<sig.next>>), {key})
         [] sig.kind \in {"UnOp", "Bits", "Repeat"} ->
               Step(rs, Calls(<<sig.source>>), {})
         [] sig.kind \in {"SimpleBinOp", "AdditiveBinOp", "ComparisonBinOp",
                          "ShiftBinOp", "Concat"} ->
               Step(rs, Calls(<<sig.lhs, sig.rhs>>), {})
         [] sig.kind = "Mux" ->
               Step(rs, Calls(<<sig.cond, sig.when_true, sig.when_false>>), {})
         [] sig.kind = "InstanceOutput" ->
               Step(rs,
                    <<<<g.outputs[g.insts[sig.instance].instantiated_module][sig.name],
                        get_child(context, sig.instance)>>>>,
                    {})

\* registers that depend on themselves: a holds its own complement, b and c
\* hold each other, d holds itself
RegLoopGraph ==
    Graph(<<"RegLoops">>,
          <<Input("top", "i", 1),
            Reg("top", "a", 1, 3), UnOp("top", 2, 1),
            Reg("top", "b", 1, 5), Reg("top", "c", 1, 4),
            BinOp("top", "SimpleBinOp", "BitXor", 2, 4, 1),
            Reg("top", "d", 1, 7)>>,
          <<>>,
          [top |-> [o |-> 6, p |-> 7]],
          [i |-> Port(1, PortSamples(1))])

\* a register that depends on itself through the boundary of its instance:
\* the inner register holds the inner input, which the top module drives
\* with the complement of the instance's output; a second instance is driven
\* by the output of the first
InstanceLoopGraph ==
    Graph(<<"InstanceLoops">>,
          <<Input("Inner", "i", 1), Reg("Inner", "r", 1, 1),
            InstanceOutput("top", 1, "o", 1), UnOp("top", 3, 1),
            InstanceOutput("top", 2, "o", 1)>>,
          <<Instance("top", "Inner", [i |-> 4]),
            Instance("top", "Inner", [i |-> 3])>>,
          [Inner |-> [o |-> 2], top |-> [o |-> 3, p |-> 5]],
          <<>>)

GatherGraphs ==
    {HierarchyGraphs[i] : i \in DOMAIN HierarchyGraphs}
    \cup {RegLoopGraph, InstanceLoopGraph}

\* a call of gather_regs is made on the compiler
GatherStart(signal, context) ==
    /\ gather.stack = <<>>
    /\ ngathers < MaxGathers
    /\ ngathers' = ngathers + 1
    /\ gather' = [gather EXCEPT !.stack = <<<<signal, context>>>>, !.start = regs]
    /\ call' = [op |-> "gather_regs", signal |-> signal, context |-> context,
                ret |-> <<>>, hit |-> FALSE]
    /\ UNCHANGED <<graph, regs, signal_exprs, prop_assignments, local_count,
                   first_ret, members, locals, ncalls>>
    /\ UNCHANGED verilog_vars

\* the call on top of the stack runs its body
GatherStep ==
    /\ gather.stack # <<>>
    /\ \E r \in {gather_regs_step(graph, regs, gather.stack[1][1], gather.stack[1][2])} :
          /\ regs' = r.regs
          /\ gather' =
                [gather EXCEPT
                    !.stack = r.calls \o Tail(@),
                    !.next_traversals =
                        [k \in DOMAIN @ \cup r.entered |->
                            (IF k \in DOMAIN @ THEN @[k] ELSE 0)
                            + (IF k \in r.entered THEN 1 ELSE 0)]]
    /\ UNCHANGED <<graph, signal_exprs, prop_assignments, local_count, call,
                   first_ret, members, locals, ncalls, ngathers>>
    /\ UNCHANGED verilog_vars

InitGather ==
    /\ graph \in GatherGraphs
    /\ InitCompiler
    /\ VerilogIdle

NextGather ==
    \/ \E p \in CallPairs(graph) : GatherStart(p[1], p[2])
    \/ GatherStep

\* a call that was made runs on: the code between two calls always completes
SpecGather == InitGather /\ [][NextGather]_vars /\ WF_vars(GatherStep)

\* C27: on a graph without combinational cycle, registers that depend on
\* themselves directly, through other registers or through an instance
\* boundary included, every gather_regs call returns; over the whole run the
\* next signal of each (context, Reg) pair of the table is entered exactly
\* once; and the call leaves the table gather_regs is defined to return.
C27_GatherTerminates ==
    /\ [](/\ DOMAIN gather.next_traversals = DOMAIN regs
          /\ \A k \in DOMAIN regs : gather.next_traversals[k] = 1)
    /\ []((gather.stack = <<>> /\ call.op = "gather_regs") =>
             regs = gather_regs(graph, gather.start, call.signal, call.context))
    /\ (gather.stack # <<>>) ~> (gather.stack = <<>>)

\* a second call has returned on the graph of the self-dependent registers,
\* all four found
C27_Witness ==
    /\ graph.name[1] = "RegLoops"
    /\ call.op = "gather_regs"
    /\ ngathers = 2
    /\ gather.stack = <<>>
    /\ Cardinality(DOMAIN regs) = 4
    /\ gather.start # <<>>
-----------------------------------------------------------------------------
\* C28: a compile_signal call leaves the regs table as it was, keeps every
\* assignment of prop_assignments at its position and every entry of the
\* memo table with its Expr (it may append assignments and add entries); a
\* gather_regs call leaves prop_assignments, the memo table and local_count
\* as they were.
C28_FrameConditions ==
    [][/\ ncalls' = ncalls + 1 =>
             /\ regs' = regs
             /\ Len(prop_assignments') >= Len(prop_assignments)
             /\ SubSeq(prop_assignments', 1, Len(prop_assignments)) = prop_assignments
             /\ \A k \in DOMAIN signal_exprs :
                   k \in DOMAIN signal_exprs' /\ signal_exprs'[k] = signal_exprs[k]
       /\ ngathers' = ngathers + 1 =>
             /\ prop_assignments' = prop_assignments
             /\ signal_exprs' = signal_exprs
             /\ local_count' = local_count
      ]_vars

\* registers were found, a first call compiled and memoized, and a second
\* call appended assignments and added entries
C28_Witness ==
    /\ call.op = "compile_signal"
    /\ ncalls = 2
    /\ ~call.hit
    /\ regs # <<>>
    /\ Len(prop_assignments) >= 2
    /\ Ref("Local", prop_assignments[Len(prop_assignments)].target_name) = call.ret
    /\ Cardinality(DOMAIN signal_exprs) >= 4
-----------------------------------------------------------------------------
(* gather_regs and compile_signal started from the top module *)

\* the signals of the top module with the root context
TopPairs(g) == {p \in CallPairs(g) : IsRoot(p[2])}

\* compile_signal is called between two gather_regs calls
CompileAfterGather(signal, context) ==
    /\ gather.stack = <<>>
    /\ CompileSignal(signal, context)

NextContexts ==
    \/ \E p \in TopPairs(graph) : GatherStart(p[1], p[2])
    \/ GatherStep
    \/ \E p \in TopPairs(graph) : CompileAfterGather(p[1], p[2])

SpecContexts == InitGather /\ [][NextContexts]_vars

\* the signal belongs to the module the context designates
Belongs(signal, context) ==
    /\ context \in Contexts(graph)
    /\ graph.sigs[signal].module = ModuleOf(graph, context)

TopInputNames ==
    {graph.sigs[s].name :
        s \in {t \in Signals(graph) : /\ graph.sigs[t].kind = "Input"
                                      /\ graph.sigs[t].module = "top"}}

\* the pair compile_signal was called on from the pair k, one level up for
\* an Input and one level down for an InstanceOutput, with the same Expr
CrossedFrom(k) ==
    LET sig == graph.sigs[k[2]]
        depth == Len(k[1])
    IN /\ (sig.kind = "Input" /\ depth > 0) =>
             \E q \in DOMAIN signal_exprs :
                /\ q[1] = SubSeq(k[1], 1, depth - 1)
                /\ q[2] = graph.insts[k[1][depth]].driven_inputs[sig.name]
                /\ signal_exprs[q] = signal_exprs[k]
       /\ sig.kind = "InstanceOutput" =>
             \E q \in DOMAIN signal_exprs :
                /\ q[1] = k[1] \o <<sig.instance>>
                /\ q[2] = graph.outputs[graph.insts[sig.instance].instantiated_module][sig.name]
                /\ signal_exprs[q] = signal_exprs[k]
       /\ (sig.kind = "Input" /\ depth = 0) =>
             /\ sig.module = "top"
             /\ MemberRefs(signal_exprs[k]) = {sig.name}

\* C29: with gather_regs and compile_signal started from signals of the top
\* module under the root context, every call in progress of gather_regs and
\* every pair compile_signal was called on has a signal of the module its
\* context designates, and so has every key of the regs table; a compiled
\* Input under an instance context has the Expr of its driver under the
\* parent context, a compiled InstanceOutput the Expr of the instantiated
\* module's output under the child context, and an Input compiled under the
\* root context is an input of the top module; the members the emitted code
\* reads are inputs of the top module and storage of discovered registers.
C29_ContextConsistency ==
    /\ \A i \in DOMAIN gather.stack :
          Belongs(gather.stack[i][1], gather.stack[i][2])
    /\ \A k \in DOMAIN regs : Belongs(k[2], k[1])
    /\ \A k \in DOMAIN signal_exprs : Belongs(k[2], k[1]) /\ CrossedFrom(k)
    /\ ReadMembers \subseteq
          TopInputNames \cup {regs[k].value_name : k \in DOMAIN regs}

\* the output of the top module was compiled through two levels of
\* instances, down to the input of the innermost module and back up to an
\* input of the top module
C29_Witness ==
    /\ graph.name[1] = "NestedInstantiationTestModule"
    /\ call.op = "compile_signal"
    /\ call.signal = 12
    /\ ngathers >= 1
    /\ <<<<4, 1>>, 1>> \in DOMAIN signal_exprs
    /\ <<<<4>>, 2>> \in DOMAIN signal_exprs
    /\ <<<<>>, 6>> \in DOMAIN signal_exprs
    /\ "i1" \in ReadMembers
-----------------------------------------------------------------------------
\* the number of lines of the output equal to line
Count(line) == Cardinality({j \in DOMAIN vout : vout[j] = line})

\* the names of the claim for the read port of index index
PortNet(mem, index, suffix) ==
    "__mem_" \o mem.name \o "_read_port_" \o ToString(index) \o "_" \o suffix

\* the text a read port's address or enable signal, an input or a literal,
\* compiles to
DriverText(signal) ==
    IF signal.kind = "Input" THEN signal.name
    ELSE ToString(signal.bit_width) \o "'h" \o LowerHex(signal.value)

\* the output holds, once each, the declarations of the three nets named for
\* index, the assignments of port's address and enable signals to the two
\* wires and no other assignment to them, and the guarded read statement
ReadPortWritten(mem, port, index) ==
    LET address == PortNet(mem, index, "address")
        enable == PortNet(mem, index, "enable")
        value == PortNet(mem, index, "value")
    IN /\ Count(Line(1, "wire " \o RangePrefix(port[1].bit_width) \o address \o ";")) = 1
       /\ Count(Line(1, "wire " \o RangePrefix(port[2].bit_width) \o enable \o ";")) = 1
       /\ Count(Line(1, "reg " \o RangePrefix(mem.element_bit_width) \o value \o ";")) = 1
       /\ Count(Line(1, "assign " \o address \o " = " \o DriverText(port[1]) \o ";")) = 1
       /\ Count(Line(1, "assign " \o enable \o " = " \o DriverText(port[2]) \o ";")) = 1
       /\ Cardinality({i \in DOMAIN design.assignments :
                          design.assignments[i].target_name = address}) = 1
       /\ Cardinality({i \in DOMAIN design.assignments :
                          design.assignments[i].target_name = enable}) = 1
       /\ Cardinality({j \in DOMAIN vout :
                          /\ j + 2 \in DOMAIN vout
                          /\ vout[j] = Line(2, "if (" \o enable \o ") begin")
                          /\ vout[j + 1] = Line(3, value \o " <= " \o mem.name
                                                   \o "[" \o address \o "];")
                          /\ vout[j + 2] = Line(2, "end")}) = 1

\* the mem's block of the generated design
BlockOf(mem) ==
    design.mems[CHOOSE i \in DOMAIN design.mems : design.mems[i].name = mem.name]

\* C30 as stated: for a mem with k read ports the output holds the address
\* wire, the enable wire and the value reg of every index 0 .. k - 1, each
\* wire driven by exactly one assignment, and k guarded read statements, two
\* read ports with the same address and enable signals included.
C30_ReadPortDeclarations ==
    vresult = "Ok" =>
        \A k \in DOMAIN vmodule.mems :
            LET mem == vmodule.mems[k] IN
            /\ \A p \in DOMAIN mem.read_ports :
                  ReadPortWritten(mem, mem.read_ports[p], p - 1)
            /\ Len(BlockOf(mem).reads) = Len(mem.read_ports)

\* the greatest index (from 0) of a read port of the mem with the pair
GreatestIndex(mem, pair) ==
    (CHOOSE p \in DOMAIN mem.read_ports :
        /\ mem.read_ports[p] = pair
        /\ \A q \in (p + 1) .. Len(mem.read_ports) : mem.read_ports[q] # pair) - 1

\* C30: for a mem whose k read ports use d distinct (address, enable)
\* pairs, the output holds one address wire, one enable wire and one value
\* reg per pair, named with the greatest index of a read port that uses the
\* pair, each wire driven by exactly one assignment, and d guarded read
\* statements; nothing is declared under the index of a read port whose pair
\* a later read port uses again; with pairwise distinct pairs d = k and the
\* indices are 0 .. k - 1.
C30_ReadPortDeclarationsPerPair ==
    vresult = "Ok" =>
        \A k \in DOMAIN vmodule.mems :
            LET mem == vmodule.mems[k]
                pairs == {mem.read_ports[p] : p \in DOMAIN mem.read_ports}
                indices == {GreatestIndex(mem, pair) : pair \in pairs}
            IN /\ \A pair \in pairs :
                     ReadPortWritten(mem, pair, GreatestIndex(mem, pair))
               /\ Len(BlockOf(mem).reads) = Cardinality(pairs)
               /\ \A index \in Range(Len(mem.read_ports)) \ indices :
                     \A j \in DOMAIN vout, w \in {1, mem.element_bit_width},
                        net_type \in {"wire", "reg"},
                        suffix \in {"address", "enable", "value"} :
                         vout[j] # Line(1, net_type \o " " \o RangePrefix(w)
                                           \o PortNet(mem, index, suffix) \o ";")
               /\ Cardinality(pairs) = Len(mem.read_ports) =>
                     indices = Range(Len(mem.read_ports))

\* three read ports, the first and the last with the same signals: the nets
\* of indices 1 and 2 are declared, o0 and o2 read the value of index 2
C30_Witness ==
    /\ vresult = "Ok"
    /\ vmodule.name = "SharedReadPort"
    /\ Len(BlockOf(vmodule.mems[1]).reads) = 2
    /\ Count(Line(1, "reg [3:0] __mem_mem_read_port_2_value;")) = 1
    /\ Count(Line(1, "reg [3:0] __mem_mem_read_port_1_value;")) = 1
    /\ Count(Line(1, "reg [3:0] __mem_mem_read_port_0_value;")) = 0
    /\ Count(Line(1, "assign o0 = __mem_mem_read_port_2_value;")) = 1
    /\ Count(Line(1, "assign o2 = __mem_mem_read_port_2_value;")) = 1

=============================================================================
